---- MODULE Spec2Model ----
(***************************************************************************)
(* The transaction state-transition engine of go-kok (package core,        *)
(* StateTransition.TransitionDb and its helpers), as a state machine.      *)
(*                                                                         *)
(* One transition is walked through the steps of TransitionDb:             *)
(*   preCheck -> buyGas -> intrinsic gas -> dispatch -> refundGas ->       *)
(*   reward -> return.                                                     *)
(* The world state (vm.StateDB), the gas pool (GasPool) and the execution  *)
(* backend (vm.EVM) are collaborators whose code is not part of the        *)
(* sources at hand; they are modelled from their described contract.       *)
(***************************************************************************)
EXTENDS Integers, Sequences, FiniteSets, TLC

(***************************************************************************)
(* Bounds of the model.                                                    *)
(***************************************************************************)
\* Width, in bits, of the machine integers holding gas (uint64 in the code;
\* narrowed here so that values that do not fit can be enumerated).
UintBits == 17
\* Longest payload, in bytes.
MaxData == 1
\* Highest gas price offered by a message.
MaxPrice == 2
\* Highest number of refund-earning operations one execution performs.
MaxRefunds == 1
\* Gas a message may offer beyond the contract-creation base cost.
MaxExecGas == 7000
\* Gas credited to the refund counter by one refund-earning operation.
RefundUnit == 15000
\* Gas in the pool at the start of a block.
BlockGasLimit == 100000
\* Number of transactions applied to one pool in the block specification.
MaxTx == 2

(***************************************************************************)
(* Protocol parameters (package params).                                   *)
(***************************************************************************)
TxGas == 21000
TxGasContractCreation == 53000
TxDataNonZeroGas == 68
TxDataZeroGas == 4
\* Bytes of an address (common.AddressLength).
AddressLength == 20

(***************************************************************************)
(* Values.                                                                 *)
(***************************************************************************)
NoAddr == "nil"
ZeroAddr == "zero"
\* The address read from the first 20 bytes of the 32-byte word that holds
\* alice's address right-aligned: 12 zero bytes, then alice's first 8 bytes.
Shifted == "shifted"
Addr == {"alice", "miner", "contract", "template", "created", Shifted, ZeroAddr}
\* evm.Coinbase, the block's primary beneficiary.
Coinbase == "miner"
\* The address a creation primitive deploys to.
Created == "created"

Nil == << >>
Some(x) == << x >>

NoErr == "nil"
ErrNonceTooHigh == "ErrNonceTooHigh"
ErrNonceTooLow == "ErrNonceTooLow"
errInsufficientBalanceForGas == "insufficient balance to pay for gas"
ErrOutOfGas == "ErrOutOfGas"
ErrGasLimitReached == "ErrGasLimitReached"
ErrInsufficientBalance == "ErrInsufficientBalance"
ErrInvalidType == "ErrInvalidType"
ErrInvalidInput == "ErrInvalidInput"
ErrExecution == "ErrExecution"

Binary == "Binary"
SourceCode == "SourceCode"
Endorse == "Endorse"
LoginCandidate == "LoginCandidate"
LogoutCandidate == "LogoutCandidate"
Delegate == "Delegate"
UnDelegate == "UnDelegate"
GovernanceKinds == {LoginCandidate, LogoutCandidate, Delegate, UnDelegate}
TxTypes == {Binary, SourceCode, Endorse} \cup GovernanceKinds \cup {"Unknown"}

Pow2(n) == 2 ^ n
\* big.Int.BitLen() > 64
TooWide(n) == n >= Pow2(UintBits)
\* big.Int.Uint64()
Uint64(n) == n % Pow2(UintBits)
BigMin(a, b) == IF a < b THEN a ELSE b

\* A payload: a nil slice, or a slice of bytes (possibly of length 0).
NilData == [isNil |-> TRUE, bytes |-> << >>]
Bytes == {0, 1}
BytesUpTo(n) == UNION {[1..k -> Bytes] : k \in 0..n}
Payloads == {NilData} \cup {[isNil |-> FALSE, bytes |-> b] : b \in BytesUpTo(MaxData)}

VARIABLES
    balance,        \* world state: balance of every address
    nonce,          \* world state: nonce of every address
    exist,          \* world state: the addresses that have an account
    typeSlot,       \* world state: the tag stored under the "type" key
    coinbaseSlot,   \* world state: the address stored under the "coinbase" key
    refund,         \* world state: the refund counter
    homestead,      \* chain configuration: the upgrade rule is active
    gp,             \* the gas pool of the block
    msg,            \* st.msg
    txType,         \* st.txType
    gas,            \* st.gas
    initialGas,     \* st.initialGas
    pc,             \* the step of TransitionDb that runs next
    addressType,    \* TransitionDb's local addressType
    contractCreation, \* TransitionDb's local contractCreation
    intrinsicGas,   \* TransitionDb's local intrinsicGas
    vmerr,          \* TransitionDb's local vmerr
    primitive,      \* the execution primitive invoked, the validator set and the
                    \* code or payload passed to it, and the number of invocations
    result,         \* what TransitionDb returned
    errAt,          \* the step that returned the error
    appliedRefund,  \* the refund computed by refundGas
    pre,            \* balances, nonces, pool and type slots when TransitionDb was called
    txCount,        \* transitions applied to the pool so far
    blockGasUsed,   \* sum of gasUsed over the completed transitions
    blockGasKept,   \* sum of the limits purchased by transitions that failed later
    fakeMode,       \* kokash.fakeMode
    threads,        \* kokash.threads
    seeded,         \* kokash.rand has been set
    stop,           \* the stop channel given to Seal is closed
    sealPc,         \* the statement of Seal that runs next
    round,          \* the number of the running invocation of Seal (it calls itself)
    count,          \* Seal's local threads
    spawned,        \* Seal's loop counter i
    abort,          \* per round: the abort channel is closed
    mine,           \* per round and thread id: the statement of mine that runs next
    taken,          \* the case Seal's select took in the running invocation
    sealed,         \* what Seal returned
    validatorField, \* kokereum.validator
    coinbaseField,  \* kokereum.coinbase
    accounts,       \* the accounts of the first wallet, in order
    dposEngine,     \* kokereum.engine is the dpos engine
    setPc,          \* per caller of SetCoinbase: the statement that runs next
    setArg,         \* per caller of SetCoinbase: the address it was called with
    minerCoinbase,  \* the address last passed to miner.SetCoinbase
    startPc,        \* the statement of StartMining that runs next
    startValidator, \* StartMining's local validator
    started         \* what StartMining returned and what it started

world == <<balance, nonce, exist, typeSlot, coinbaseSlot, refund, homestead>>
locals == <<addressType, contractCreation, intrinsicGas, vmerr, primitive>>
block == <<txCount, blockGasUsed, blockGasKept>>
sealer == <<fakeMode, threads, seeded, stop, sealPc, round, count, spawned, abort,
            mine, taken, sealed>>
service == <<validatorField, coinbaseField, accounts, dposEngine, setPc, setArg, minerCoinbase,
             startPc, startValidator, started>>
services == <<sealer, service>>
transition == <<world, gp, msg, txType, gas, initialGas, pc, locals, result, errAt,
                appliedRefund, pre, block>>
vars == <<transition, services>>

NoMsg == [from |-> NoAddr, to |-> NoAddr, gas |-> 0, gasPrice |-> 0, value |-> 0,
          data |-> NilData, nonce |-> 0, checkNonce |-> FALSE]
NoResult == [ret |-> Nil, requiredGas |-> Nil, usedGas |-> Nil, failed |-> FALSE,
             err |-> NoErr]
NoPrimitive == [name |-> "none", validators |-> FALSE, input |-> << >>, calls |-> 0]
NoPre == [balance |-> << >>, nonce |-> << >>, gp |-> 0, typeSlot |-> << >>,
          coinbaseSlot |-> << >>]


(***************************************************************************)
(* World state (vm.StateDB) and gas pool (GasPool).                        *)
(***************************************************************************)
\* A 32-byte storage word holding a tag: its first 8 bytes as a string, and
\* the bytes after them as a string ("" when they are all zero).
LongTypeWord(tag, rest) == [first8 |-> tag, rest |-> rest]
TypeWord(tag) == LongTypeWord(tag, "")
\* A 32-byte storage word holding an address right-aligned, by the address
\* formed by its first 20 bytes and the one formed by its last 20 bytes.
CoinbaseWord(a) ==
    CASE a = ZeroAddr -> [first20 |-> ZeroAddr, last20 |-> ZeroAddr]
      [] a = "alice" -> [first20 |-> Shifted, last20 |-> "alice"]

\* The bytes of an address, each address with bytes of its own.
AddressId(a) ==
    CASE a = "alice" -> 1
      [] a = "miner" -> 2
      [] a = "contract" -> 3
      [] a = "template" -> 4
      [] a = "created" -> 5
      [] OTHER -> 0
AddressBytes(a) ==
    [i \in 1..AddressLength |->
        CASE a = ZeroAddr -> 0
          [] a = Shifted -> IF i <= 12 THEN 0 ELSE AddressId("alice") * 32 + (i - 12)
          [] OTHER -> AddressId(a) * 32 + i]
\* StateDB.GetCode: the template holds code, the other accounts none.
GetCode(a) == IF a = "template" THEN <<96, 128>> ELSE << >>

AddBalance(b, a, amount) == [b EXCEPT ![a] = @ + amount]
SubBalance(b, a, amount) == [b EXCEPT ![a] = @ - amount]

\* GasPool.SubGas: fails, leaving the pool as it was, when the pool holds less
\* than the amount.
SubGas(pool, amount) ==
    IF pool < amount THEN [err |-> ErrGasLimitReached, gp |-> pool]
    ELSE [err |-> NoErr, gp |-> pool - amount]

\* GasPool.AddGas
AddGas(pool, amount) == pool + amount

(***************************************************************************)
(* Pure helpers of the engine.                                             *)
(***************************************************************************)
NonZeroBytes(bytes) == Cardinality({i \in 1..Len(bytes) : bytes[i] # 0})

\* IntrinsicGas charging the creation cost whether or not the upgrade is active.
IntrinsicGas_CreationAlways(data, creation, isHomestead) ==
    LET base == IF creation THEN TxGasContractCreation ELSE TxGas
        nz == NonZeroBytes(data.bytes)
    IN  IF Len(data.bytes) > 0
        THEN base + nz * TxDataNonZeroGas + (Len(data.bytes) - nz) * TxDataZeroGas
        ELSE base

IntrinsicGas(data, creation, isHomestead) ==
    LET base == IF creation /\ isHomestead THEN TxGasContractCreation ELSE TxGas
        nz == NonZeroBytes(data.bytes)
    IN  IF Len(data.bytes) > 0
        THEN base + nz * TxDataNonZeroGas + (Len(data.bytes) - nz) * TxDataZeroGas
        ELSE base

\* The length of common.Hash.
HashLength == 32

\* The bytes of a string.
Ascii(s) ==
    CASE s = "" -> << >>
      [] s = "s" -> <<115>>
      [] s = "type" -> <<116, 121, 112, 101>>
      [] s = "templat" -> <<116, 101, 109, 112, 108, 97, 116>>
      [] s = "template" -> <<116, 101, 109, 112, 108, 97, 116, 101>>
      [] s = "contract" -> <<99, 111, 110, 116, 114, 97, 99, 116>>
      [] s = "coinbase" -> <<99, 111, 105, 110, 98, 97, 115, 101>>

\* n bytes: those of code from the first byte on, then zero bytes.
Pad(code, n) == [i \in 1..n |-> IF i <= Len(code) THEN code[i] ELSE 0]

\* The 32 bytes of a storage word.
WordBytes(w) == Pad(Ascii(w.first8), 8) \o Pad(Ascii(w.rest), HashLength - 8)

\* HashTypeString with the string at the end of the word.
HashTypeString_RightAligned(code) ==
    [i \in 1..HashLength |->
        IF i > HashLength - Len(code) THEN code[i - (HashLength - Len(code))] ELSE 0]

\* HashTypeString, on the bytes of the string: hash[i] = code[i] from i = 0.
HashTypeString(code) == Pad(code, HashLength)

\* GetAddressType comparing the whole word with the tag.
GetAddressType_WholeWord(hash) ==
    CASE hash.first8 = "template" /\ hash.rest = "" -> "template"
      [] hash.first8 = "contract" /\ hash.rest = "" -> "contract"
      [] OTHER -> "normal"

GetAddressType(hash) ==
    CASE hash.first8 = "template" -> "template"
      [] hash.first8 = "contract" -> "contract"
      [] OTHER -> "normal"

CommonHash2Address(hash) == hash.first20

\* Layer giving the miner the whole gas on top of the coinbase's share.
Layer_MineNotReduced(g, tail) ==
    LET gas_coinbase == Uint64((g \div 10) * tail)
    IN  [gas_mine |-> Uint64(g), gas_coinbase |-> gas_coinbase]

\* Layer giving the miner nine times the coinbase's share.
Layer_NineTenths(g, tail) ==
    LET gas_coinbase == Uint64((g \div 10) * tail)
    IN  [gas_mine |-> Uint64(9 * gas_coinbase), gas_coinbase |-> gas_coinbase]

Layer(g, tail) ==
    LET gas_coinbase == Uint64((g \div 10) * tail)
    IN  [gas_mine |-> Uint64(g - gas_coinbase), gas_coinbase |-> gas_coinbase]

ByteAndByte(template, data) == template \o data
\* The first 20 bytes of the word are appended.
byteAppend(template, coinbase) == template \o AddressBytes(coinbase.first20)
byteAppendAddress(template, address) == template \o AddressBytes(address)

\* The init code with the recipient's address put before the coinbase bytes.
templateCode_AddressFirst(to, data, coinbase) ==
    LET code == GetCode(to)
        withData == IF Len(data.bytes) > 0 THEN ByteAndByte(code, data.bytes) ELSE code
    IN  byteAppend(byteAppendAddress(withData, to), coinbase)

\* TransitionDb, Binary to a template: the init code handed to evm.Create.
templateCode(to, data, coinbase) ==
    LET code == GetCode(to)
        withData == IF Len(data.bytes) > 0 THEN ByteAndByte(code, data.bytes) ELSE code
    IN  byteAppendAddress(byteAppend(withData, coinbase), to)

\* Every error of the primitive is returned as the transition's error.
isConsensusError_Any(e) == e # NoErr
\* No error of the primitive is returned as the transition's error.
isConsensusError_None(e) == FALSE
\* TransitionDb: the error of the primitive that is returned as the
\* transition's error.
isConsensusError(e) == e = ErrInsufficientBalance

\* StateTransition.gasUsed
gasUsed(initial, stGas) == initial - stGas

\* useGas without its guard: the subtraction wraps around.
useGas_NoCheck(stGas, amount) ==
    [err |-> NoErr, gas |-> Uint64(stGas - amount)]

\* useGas that checks the amount but never subtracts it.
useGas_Free(stGas, amount) ==
    IF stGas < amount THEN [err |-> ErrOutOfGas, gas |-> stGas]
    ELSE [err |-> NoErr, gas |-> stGas]

\* useGas failing also when the amount is all of the remaining gas.
useGas_FailsOnEqual(stGas, amount) ==
    IF stGas <= amount THEN [err |-> ErrOutOfGas, gas |-> stGas]
    ELSE [err |-> NoErr, gas |-> stGas - amount]

\* StateTransition.useGas
useGas(stGas, amount) ==
    IF stGas < amount THEN [err |-> ErrOutOfGas, gas |-> stGas]
    ELSE [err |-> NoErr, gas |-> stGas - amount]

\* The creation pricing applied only to a message without recipient.
isContractCreation_NoRecipientOnly(to, role) == to = NoAddr

\* TransitionDb: the message is priced as a contract creation when it has no
\* recipient or its recipient is a template.
isContractCreation(to, role) == to = NoAddr \/ role = "template"

\* The intrinsic charge without the width check: the cost is truncated.
payIntrinsic_Truncating(stGas, igas) == useGas(stGas, Uint64(igas))

\* TransitionDb: the intrinsic gas is paid, unless it does not fit in 64 bits.
payIntrinsic(stGas, igas) ==
    IF TooWide(igas) THEN [err |-> ErrOutOfGas, gas |-> stGas]
    ELSE useGas(stGas, Uint64(igas))

\* The nonce comparison without its too-high branch.
nonceCheck_LowOnly(m, stateNonce) ==
    IF m.checkNonce /\ stateNonce > m.nonce THEN ErrNonceTooLow ELSE NoErr

\* StateTransition.preCheck, the nonce comparison.
nonceCheck(m, stateNonce) ==
    IF m.checkNonce
    THEN IF stateNonce < m.nonce THEN ErrNonceTooHigh
         ELSE IF stateNonce > m.nonce THEN ErrNonceTooLow
         ELSE NoErr
    ELSE NoErr

\* buyGas debiting the sender before the pool is asked.
buyGas_DebitBeforePool(senderBalance, pool, stGas, stInitialGas, mgas, price) ==
    LET mgval == mgas * price
        unchanged(e) == [err |-> e, balance |-> senderBalance, gp |-> pool,
                         gas |-> stGas, initialGas |-> stInitialGas]
        sub == SubGas(pool, mgas)
    IN  IF TooWide(mgas) THEN unchanged(ErrOutOfGas)
        ELSE IF senderBalance < mgval THEN unchanged(errInsufficientBalanceForGas)
        ELSE IF sub.err # NoErr
             THEN [unchanged(sub.err) EXCEPT !.balance = senderBalance - mgval]
        ELSE [err |-> NoErr, balance |-> senderBalance - mgval, gp |-> sub.gp,
              gas |-> Uint64(stGas + Uint64(mgas)), initialGas |-> mgas]

\* buyGas setting the working gas before the pool is asked.
buyGas_GasBeforePool(senderBalance, pool, stGas, stInitialGas, mgas, price) ==
    LET mgval == mgas * price
        unchanged(e) == [err |-> e, balance |-> senderBalance, gp |-> pool,
                         gas |-> stGas, initialGas |-> stInitialGas]
        sub == SubGas(pool, mgas)
    IN  IF TooWide(mgas) THEN unchanged(ErrOutOfGas)
        ELSE IF senderBalance < mgval THEN unchanged(errInsufficientBalanceForGas)
        ELSE IF sub.err # NoErr
             THEN [unchanged(sub.err) EXCEPT !.gas = Uint64(stGas + Uint64(mgas))]
        ELSE [err |-> NoErr, balance |-> senderBalance - mgval, gp |-> sub.gp,
              gas |-> Uint64(stGas + Uint64(mgas)), initialGas |-> mgas]

\* buyGas debiting the limit instead of limit x price.
buyGas_DebitLimitOnly(senderBalance, pool, stGas, stInitialGas, mgas, price) ==
    LET mgval == mgas * price
        unchanged(e) == [err |-> e, balance |-> senderBalance, gp |-> pool,
                         gas |-> stGas, initialGas |-> stInitialGas]
        sub == SubGas(pool, mgas)
    IN  IF TooWide(mgas) THEN unchanged(ErrOutOfGas)
        ELSE IF senderBalance < mgval THEN unchanged(errInsufficientBalanceForGas)
        ELSE IF sub.err # NoErr THEN unchanged(sub.err)
        ELSE [err |-> NoErr, balance |-> senderBalance - mgas, gp |-> sub.gp,
              gas |-> Uint64(stGas + Uint64(mgas)), initialGas |-> mgas]

\* buyGas rejecting a balance equal to limit x price.
buyGas_StrictBalance(senderBalance, pool, stGas, stInitialGas, mgas, price) ==
    LET mgval == mgas * price
        unchanged(e) == [err |-> e, balance |-> senderBalance, gp |-> pool,
                         gas |-> stGas, initialGas |-> stInitialGas]
        sub == SubGas(pool, mgas)
    IN  IF TooWide(mgas) THEN unchanged(ErrOutOfGas)
        ELSE IF senderBalance <= mgval THEN unchanged(errInsufficientBalanceForGas)
        ELSE IF sub.err # NoErr THEN unchanged(sub.err)
        ELSE [err |-> NoErr, balance |-> senderBalance - mgval, gp |-> sub.gp,
              gas |-> Uint64(stGas + Uint64(mgas)), initialGas |-> mgas]

\* StateTransition.buyGas: the error returned, and the sender's balance, the
\* pool and the working gas it leaves.
buyGas(senderBalance, pool, stGas, stInitialGas, mgas, price) ==
    LET mgval == mgas * price
        unchanged(e) == [err |-> e, balance |-> senderBalance, gp |-> pool,
                         gas |-> stGas, initialGas |-> stInitialGas]
        sub == SubGas(pool, mgas)
    IN  IF TooWide(mgas) THEN unchanged(ErrOutOfGas)
        ELSE IF senderBalance < mgval THEN unchanged(errInsufficientBalanceForGas)
        ELSE IF sub.err # NoErr THEN unchanged(sub.err)
        ELSE [err |-> NoErr, balance |-> senderBalance - mgval, gp |-> sub.gp,
              gas |-> Uint64(stGas + Uint64(mgas)), initialGas |-> mgas]

\* The refund capped to the whole of the gas used, not to half of it.
refundOf_CappedToUsed(initial, stGas, counter) ==
    BigMin(gasUsed(initial, stGas), counter)

\* The refund without its cap.
refundOf_Uncapped(initial, stGas, counter) == counter

\* StateTransition.refundGas: the refund applied, capped to half of the gas used.
refundOf(initial, stGas, counter) ==
    BigMin(gasUsed(initial, stGas) \div 2, counter)

\* The dispatch with the source-install row also under role normal.
dispatchRow_NormalSourceCode(to, role, kind, data) ==
    LET row(n, inc, v) == [name |-> n, incNonce |-> inc, validators |-> v, err |-> NoErr]
        bad(e) == [name |-> "none", incNonce |-> FALSE, validators |-> FALSE, err |-> e]
    IN  IF to = NoAddr THEN row("Template", FALSE, FALSE)
        ELSE CASE role = "template" ->
                    (CASE kind = Binary -> row("Create", FALSE, FALSE)
                       [] kind = SourceCode -> row("SourceCode", TRUE, FALSE)
                       [] kind = Endorse -> row("Endorse", TRUE, FALSE)
                       [] OTHER -> bad(ErrInvalidType))
               [] role = "contract" ->
                    (CASE kind = Endorse -> row("Endorse", TRUE, FALSE)
                       [] kind = Binary -> row("Call", TRUE, FALSE)
                       [] OTHER -> bad(ErrInvalidType))
               [] role = "normal" ->
                    (CASE kind = Endorse -> row("Endorse", TRUE, FALSE)
                       [] kind = Binary -> row("Call", TRUE, TRUE)
                       [] kind = SourceCode -> row("SourceCode", TRUE, FALSE)
                       [] kind \in GovernanceKinds ->
                            IF ~data.isNil THEN bad(ErrInvalidInput)
                            ELSE row("Call", TRUE, TRUE)
                       [] OTHER -> bad(ErrInvalidType))

\* The dispatch passing the validator set to the call on a contract.
dispatchRow_ContractValidators(to, role, kind, data) ==
    LET row(n, inc, v) == [name |-> n, incNonce |-> inc, validators |-> v, err |-> NoErr]
        bad(e) == [name |-> "none", incNonce |-> FALSE, validators |-> FALSE, err |-> e]
    IN  IF to = NoAddr THEN row("Template", FALSE, FALSE)
        ELSE CASE role = "template" ->
                    (CASE kind = Binary -> row("Create", FALSE, FALSE)
                       [] kind = SourceCode -> row("SourceCode", TRUE, FALSE)
                       [] kind = Endorse -> row("Endorse", TRUE, FALSE)
                       [] OTHER -> bad(ErrInvalidType))
               [] role = "contract" ->
                    (CASE kind = Endorse -> row("Endorse", TRUE, FALSE)
                       [] kind = Binary -> row("Call", TRUE, TRUE)
                       [] OTHER -> bad(ErrInvalidType))
               [] role = "normal" ->
                    (CASE kind = Endorse -> row("Endorse", TRUE, FALSE)
                       [] kind = Binary -> row("Call", TRUE, TRUE)
                       [] kind \in GovernanceKinds ->
                            IF ~data.isNil THEN bad(ErrInvalidInput)
                            ELSE row("Call", TRUE, TRUE)
                       [] OTHER -> bad(ErrInvalidType))

\* The dispatch incrementing the nonce before the template is instantiated.
dispatchRow_CreateIncrements(to, role, kind, data) ==
    LET row(n, inc, v) == [name |-> n, incNonce |-> inc, validators |-> v, err |-> NoErr]
        bad(e) == [name |-> "none", incNonce |-> FALSE, validators |-> FALSE, err |-> e]
    IN  IF to = NoAddr THEN row("Template", FALSE, FALSE)
        ELSE CASE role = "template" ->
                    (CASE kind = Binary -> row("Create", TRUE, FALSE)
                       [] kind = SourceCode -> row("SourceCode", TRUE, FALSE)
                       [] kind = Endorse -> row("Endorse", TRUE, FALSE)
                       [] OTHER -> bad(ErrInvalidType))
               [] role = "contract" ->
                    (CASE kind = Endorse -> row("Endorse", TRUE, FALSE)
                       [] kind = Binary -> row("Call", TRUE, FALSE)
                       [] OTHER -> bad(ErrInvalidType))
               [] role = "normal" ->
                    (CASE kind = Endorse -> row("Endorse", TRUE, FALSE)
                       [] kind = Binary -> row("Call", TRUE, TRUE)
                       [] kind \in GovernanceKinds ->
                            IF ~data.isNil THEN bad(ErrInvalidInput)
                            ELSE row("Call", TRUE, TRUE)
                       [] OTHER -> bad(ErrInvalidType))

\* The dispatch applying a kind check to a message without recipient.
dispatchRow_KindCheckedWithoutRecipient(to, role, kind, data) ==
    LET row(n, inc, v) == [name |-> n, incNonce |-> inc, validators |-> v, err |-> NoErr]
        bad(e) == [name |-> "none", incNonce |-> FALSE, validators |-> FALSE, err |-> e]
    IN  IF to = NoAddr
        THEN (IF kind = Binary THEN row("Template", FALSE, FALSE)
              ELSE bad(ErrInvalidType))
        ELSE CASE role = "template" ->
                    (CASE kind = Binary -> row("Create", FALSE, FALSE)
                       [] kind = SourceCode -> row("SourceCode", TRUE, FALSE)
                       [] kind = Endorse -> row("Endorse", TRUE, FALSE)
                       [] OTHER -> bad(ErrInvalidType))
               [] role = "contract" ->
                    (CASE kind = Endorse -> row("Endorse", TRUE, FALSE)
                       [] kind = Binary -> row("Call", TRUE, FALSE)
                       [] OTHER -> bad(ErrInvalidType))
               [] role = "normal" ->
                    (CASE kind = Endorse -> row("Endorse", TRUE, FALSE)
                       [] kind = Binary -> row("Call", TRUE, TRUE)
                       [] kind \in GovernanceKinds ->
                            IF ~data.isNil THEN bad(ErrInvalidInput)
                            ELSE row("Call", TRUE, TRUE)
                       [] OTHER -> bad(ErrInvalidType))

\* The dispatch decision of TransitionDb: the primitive to invoke, whether the
\* sender's nonce is incremented first, whether the validator set is passed,
\* or the error returned instead.
dispatchRow(to, role, kind, data) ==
    LET row(n, inc, v) == [name |-> n, incNonce |-> inc, validators |-> v, err |-> NoErr]
        bad(e) == [name |-> "none", incNonce |-> FALSE, validators |-> FALSE, err |-> e]
    IN  IF to = NoAddr THEN row("Template", FALSE, FALSE)
        ELSE CASE role = "template" ->
                    (CASE kind = Binary -> row("Create", FALSE, FALSE)
                       [] kind = SourceCode -> row("SourceCode", TRUE, FALSE)
                       [] kind = Endorse -> row("Endorse", TRUE, FALSE)
                       [] OTHER -> bad(ErrInvalidType))
               [] role = "contract" ->
                    (CASE kind = Endorse -> row("Endorse", TRUE, FALSE)
                       [] kind = Binary -> row("Call", TRUE, FALSE)
                       [] OTHER -> bad(ErrInvalidType))
               [] role = "normal" ->
                    (CASE kind = Endorse -> row("Endorse", TRUE, FALSE)
                       [] kind = Binary -> row("Call", TRUE, TRUE)
                       [] kind \in GovernanceKinds ->
                            IF ~data.isNil THEN bad(ErrInvalidInput)
                            ELSE row("Call", TRUE, TRUE)
                       [] OTHER -> bad(ErrInvalidType))


\* refundGas returning the gas to the pool before the refund is added to it.
refundGas_PoolBeforeRefund(senderBalance, pool, stGas, initial, counter, price) ==
    LET remaining == stGas * price
        r == refundOf(initial, stGas, counter)
        g == Uint64(stGas + Uint64(r))
    IN  [balance |-> senderBalance + remaining + r * price,
         gas |-> g, gp |-> AddGas(pool, stGas), refund |-> r]

\* refundGas paying the sender for the gas left only, not for the refund.
refundGas_RefundNotCredited(senderBalance, pool, stGas, initial, counter, price) ==
    LET remaining == stGas * price
        r == refundOf(initial, stGas, counter)
        g == Uint64(stGas + Uint64(r))
    IN  [balance |-> senderBalance + remaining,
         gas |-> g, gp |-> AddGas(pool, g), refund |-> r]

\* StateTransition.refundGas: the sender's balance, the working gas and the pool
\* it leaves, and the refund it applied.
refundGas(senderBalance, pool, stGas, initial, counter, price) ==
    LET remaining == stGas * price
        r == refundOf(initial, stGas, counter)
        g == Uint64(stGas + Uint64(r))
    IN  [balance |-> senderBalance + remaining + r * price,
         gas |-> g, gp |-> AddGas(pool, g), refund |-> r]

\* The reward crediting the address the coinbase slot held when the transition
\* started, whatever the execution has written to the slot since.
reward_CoinbaseReadBefore(b, role, used, price, secondary) ==
    IF role = "contract"
    THEN LET l == Layer(Uint64(used), 1)
         IN  AddBalance(AddBalance(b, Coinbase, l.gas_mine * price),
                        CommonHash2Address(pre.coinbaseSlot[msg.to]),
                        l.gas_coinbase * price)
    ELSE AddBalance(b, Coinbase, Uint64(used) * price)

\* The reward reading the recipient's role again from the state, after the
\* execution, instead of using the role read before the intrinsic gas charge.
reward_RoleReadAgain(b, role, used, price, secondary) ==
    IF msg.to # NoAddr /\ GetAddressType(typeSlot[msg.to]) = "contract"
    THEN LET l == Layer(Uint64(used), 1)
         IN  AddBalance(AddBalance(b, Coinbase, l.gas_mine * price),
                        CommonHash2Address(coinbaseSlot[msg.to]),
                        l.gas_coinbase * price)
    ELSE AddBalance(b, Coinbase, Uint64(used) * price)

\* The reward step of TransitionDb: the balances after the fee is credited.
reward(b, role, used, price, secondary) ==
    IF role = "contract"
    THEN LET l == Layer(Uint64(used), 1)
         IN  AddBalance(AddBalance(b, Coinbase, l.gas_mine * price),
                        secondary, l.gas_coinbase * price)
    ELSE AddBalance(b, Coinbase, Uint64(used) * price)

(***************************************************************************)
(* The execution backend (vm.EVM): Template, Create, Call, SourceCode and   *)
(* Endorse. Each returns output, remaining gas and an error. A value the    *)
(* sender cannot pay is reported as ErrInsufficientBalance before anything  *)
(* is changed; otherwise the execution succeeds, moving the value, or fails *)
(* with some other error, and hands back no more gas than it was given.     *)
(* A successful execution may rewrite the type slot of the recipient        *)
(* (deployment changes the role of an address) and the coinbase slot of a   *)
(* contract it runs.                                                        *)
(***************************************************************************)
Leftovers(g) == {0, g \div 2, g}
Refunds == {k * RefundUnit : k \in 0..MaxRefunds}

Execute(stGas, senderBalance, value, counter) ==
    IF senderBalance < value
    THEN {[err |-> ErrInsufficientBalance, gas |-> stGas, refund |-> counter,
           ret |-> Nil, retype |-> FALSE, recoin |-> FALSE]}
    ELSE LET outcomes ==
                 {[err |-> e, gas |-> g, refund |-> r,
                   ret |-> IF e = NoErr THEN Some("output") ELSE Nil, retype |-> t,
                   recoin |-> c] :
                     e \in {NoErr, ErrExecution}, g \in Leftovers(stGas),
                     r \in Refunds, t \in BOOLEAN, c \in BOOLEAN}
         IN  {o \in outcomes : (o.retype \/ o.recoin) => o.err = NoErr}

\* The coinbase slot after the primitive has rewritten it: a slot holding an
\* address is cleared, a cleared slot is given alice's address.
Recoined(hash) ==
    IF hash = CoinbaseWord(ZeroAddr) THEN CoinbaseWord("alice")
    ELSE CoinbaseWord(ZeroAddr)

\* The type slot after the primitive has rewritten it: a contract becomes a
\* normal account, any other account a contract.
Retyped(hash) ==
    IF GetAddressType(hash) = "contract" THEN TypeWord("") ELSE TypeWord("contract")

Transfer(b, from, to, value) == AddBalance(SubBalance(b, from, value), to, value)

(***************************************************************************)
(* Initial state: a block about to be processed.                           *)
(***************************************************************************)
BigLimit == TxGasContractCreation + MaxExecGas

\* The type slots of the accounts at the start of the block.
DeployedTypes ==
    [a \in Addr |-> CASE a = "contract" -> TypeWord("contract")
                     [] a = "template" -> TypeWord("template")
                     [] OTHER -> TypeWord("")]

(***************************************************************************)
(* The sealer: kokash.Seal and the search threads it starts (kokash.mine). *)
(***************************************************************************)
MaxThreads == 2
MaxRounds == 2

\* runtime.NumCPU()
NumCPU == MaxThreads
Ids == 0..(MaxThreads - 1)
Rounds == 1..MaxRounds
ThreadCounts == (0 - 1)..MaxThreads

NoBlock == << >>
\* block.WithSeal(header) of the fake mode: nonce and mix digest are zero.
FakeBlock == <<0>>
\* block.WithSeal(header) with the nonce found by thread id of round r.
SealedBy(r, id) == <<r, id>>
ErrSeed == "seed source failed"
NoSeal == [block |-> NoBlock, err |-> NoErr]

\* Seal's local threads, from kokash.threads.
searchThreads_NegativeAsDefault(n) == IF n <= 0 THEN NumCPU ELSE n

searchThreads(n) ==
    IF n = 0 THEN NumCPU
    ELSE IF n < 0 THEN 0
    ELSE n

\* A search thread is running: it has been started and has not returned.
Running(s) == s \in {"select", "search", "found"}

\* pend.Wait() returns: every thread of the round has called pend.Done().
pendWait_NoWait(ms) == TRUE

pendWait(ms) == \A id \in Ids : ~Running(ms[id])

\* The select of a thread that found a nonce: the cases that are ready,
\* given that Seal is receiving from found and that abort is closed.
deliverSelect_SendOnly(receiving, closed) == IF receiving THEN {"found"} ELSE {}

deliverSelect(receiving, closed) ==
    (IF receiving THEN {"found"} ELSE {}) \cup (IF closed THEN {"abort"} ELSE {})

SealIdle(n, fake) ==
    /\ fakeMode = fake
    /\ threads = n
    /\ seeded = FALSE
    /\ stop = FALSE
    /\ sealPc = "idle"
    /\ round = 0
    /\ count = 0
    /\ spawned = 0
    /\ abort = [r \in Rounds |-> FALSE]
    /\ mine = [r \in Rounds |-> [id \in Ids |-> "none"]]
    /\ taken = "none"
    /\ sealed = NoSeal

(***************************************************************************)
(* The service: kokereum's validator and coinbase, and StartMining.        *)
(***************************************************************************)
MaxCallers == 2

Callers == 1..MaxCallers
ServiceAddrs == {ZeroAddr, "alice", "miner"}
Wallets == {<< >>, <<"miner">>, <<"alice", "miner">>}
ErrValidator == "validator address must be explicitly specified"
ErrCoinbase == "coinbase address must be explicitly specified"
ErrValidatorMissing == "validator missing"
ErrCoinbaseMissing == "coinbase missing"
ErrSignerMissing == "signer missing"
NotStarted == [err |-> NoErr, miner |-> FALSE, coinbase |-> NoAddr, acceptTxs |-> FALSE]

\* kokereum.Validator(), from the field and the accounts of the first wallet.
kokereumValidator_WalletFirst(field, accts) ==
    IF Len(accts) > 0 THEN [addr |-> accts[1], err |-> NoErr]
    ELSE IF field # ZeroAddr THEN [addr |-> field, err |-> NoErr]
    ELSE [addr |-> ZeroAddr, err |-> ErrValidator]

kokereumValidator(field, accts) ==
    IF field # ZeroAddr THEN [addr |-> field, err |-> NoErr]
    ELSE IF Len(accts) > 0 THEN [addr |-> accts[1], err |-> NoErr]
    ELSE [addr |-> ZeroAddr, err |-> ErrValidator]

\* kokereum.Coinbase().
kokereumCoinbase(field, accts) ==
    IF field # ZeroAddr THEN [addr |-> field, err |-> NoErr]
    ELSE IF Len(accts) > 0 THEN [addr |-> accts[1], err |-> NoErr]
    ELSE [addr |-> ZeroAddr, err |-> ErrCoinbase]

\* s.accountManager.Find(account): the wallet that holds the account.
Find(accts, a) == \E k \in 1..Len(accts) : accts[k] = a

ServiceIdle(v, c, accts, dpos) ==
    /\ validatorField = v
    /\ coinbaseField = c
    /\ accounts = accts
    /\ dposEngine = dpos
    /\ setPc = [k \in Callers |-> "idle"]
    /\ setArg = [k \in Callers |-> ZeroAddr]
    /\ minerCoinbase = NoAddr
    /\ startPc = "idle"
    /\ startValidator = ZeroAddr
    /\ started = NotStarted

StateInit(typeSlots) ==
    /\ balance = [a \in Addr |->
                    CASE a = "alice" -> MaxPrice * BigLimit
                      [] a = "miner" -> TxGas
                      [] OTHER -> 0]
    /\ nonce = [a \in Addr |-> IF a = "alice" THEN 1 ELSE 0]
    /\ exist = {"alice", "miner", "contract", "template"}
    /\ typeSlot = typeSlots
    /\ coinbaseSlot = [a \in Addr |->
                    IF a \in {"contract", "template"} THEN CoinbaseWord("alice")
                    ELSE CoinbaseWord(ZeroAddr)]
    /\ refund = 0
    /\ homestead \in BOOLEAN
    /\ gp = BlockGasLimit
    /\ msg = NoMsg
    /\ txType = Binary
    /\ gas = 0
    /\ initialGas = 0
    /\ pc = "idle"
    /\ addressType = ""
    /\ contractCreation = FALSE
    /\ intrinsicGas = 0
    /\ vmerr = NoErr
    /\ primitive = NoPrimitive
    /\ result = NoResult
    /\ errAt = "none"
    /\ appliedRefund = 0
    /\ pre = NoPre
    /\ txCount = 0
    /\ blockGasUsed = 0
    /\ blockGasKept = 0

InitWith(typeSlots) ==
    /\ StateInit(typeSlots)
    /\ SealIdle(0, FALSE)
    /\ ServiceIdle(ZeroAddr, ZeroAddr, << >>, FALSE)

Init == InitWith(DeployedTypes)


(***************************************************************************)
(* The messages a transition is started with.                              *)
(***************************************************************************)
Senders == {"alice", "miner"}
Recipients == {NoAddr, "alice", "contract", "template"}
GasLimits == {TxGas, BigLimit, BlockGasLimit + 1, Pow2(UintBits)}
Prices == 0..MaxPrice
Values == {0, 1}
\* The nonce of a message: the sender's, one less or one more when the nonce is
\* checked; 0 when it is not.
NonceChoices(a) ==
    {[checkNonce |-> TRUE, nonce |-> n] : n \in {nonce[a] - 1, nonce[a], nonce[a] + 1} \cap Nat}
    \cup {[checkNonce |-> FALSE, nonce |-> 0]}

Messages ==
    {[from |-> f, to |-> t, gas |-> g, gasPrice |-> p, value |-> v, data |-> d,
      nonce |-> n.nonce, checkNonce |-> n.checkNonce] :
        f \in Senders, t \in Recipients, g \in GasLimits, p \in Prices,
        v \in Values, d \in Payloads,
        n \in UNION {NonceChoices(a) : a \in Senders}}

ValidMessage(m) ==
    [checkNonce |-> m.checkNonce, nonce |-> m.nonce] \in NonceChoices(m.from)

\* The messages of the block specification: priced plain messages with the
\* expected nonce.
BlockMessages ==
    {m \in Messages : /\ m.gas \in {TxGas, BigLimit}
                      /\ m.gasPrice = 1
                      /\ m.value = 0
                      /\ m.data = NilData
                      /\ m.checkNonce
                      /\ m.nonce = nonce[m.from]}
BlockTxTypes == {Binary, SourceCode}

(***************************************************************************)
(* Steps of one transition.                                                *)
(***************************************************************************)
\* A step returns the error e: nil output, nil gas values, failed = false.
Fail(e, at) ==
    /\ pc' = "done"
    /\ result' = [NoResult EXCEPT !.err = e]
    /\ errAt' = at

\* NewStateTransition, called by ApplyMessage.
NewStateTransition(m, t) ==
    /\ UNCHANGED services
    /\ pc = "idle"
    /\ ValidMessage(m)
    /\ msg' = m
    /\ txType' = t
    /\ gas' = 0
    /\ initialGas' = 0
    /\ pre' = [balance |-> balance, nonce |-> nonce, gp |-> gp, typeSlot |-> typeSlot,
               coinbaseSlot |-> coinbaseSlot]
    /\ pc' = "preCheck"
    /\ UNCHANGED <<world, gp, locals, result, errAt, appliedRefund, block>>

\* preCheck up to its call of buyGas.
PreCheck ==
    /\ UNCHANGED services
    /\ pc = "preCheck"
    /\ exist' = exist \cup {msg.from}
    /\ LET e == nonceCheck(msg, nonce[msg.from])
       IN  IF e # NoErr THEN Fail(e, "preCheck")
           ELSE pc' = "buyGas" /\ UNCHANGED <<result, errAt>>
    /\ UNCHANGED <<balance, nonce, typeSlot, coinbaseSlot, refund, homestead, gp, msg,
                   txType, gas, initialGas, locals, appliedRefund, pre, block>>

BuyGas ==
    /\ UNCHANGED services
    /\ pc = "buyGas"
    /\ LET r == buyGas(balance[msg.from], gp, gas, initialGas, msg.gas, msg.gasPrice)
       IN  /\ balance' = [balance EXCEPT ![msg.from] = r.balance]
           /\ gp' = r.gp
           /\ gas' = r.gas
           /\ initialGas' = r.initialGas
           /\ IF r.err # NoErr THEN Fail(r.err, "buyGas")
              ELSE pc' = "intrinsic" /\ UNCHANGED <<result, errAt>>
    /\ UNCHANGED <<nonce, exist, typeSlot, coinbaseSlot, refund, homestead, msg, txType,
                   locals, appliedRefund, pre, block>>

\* TransitionDb: the role is read and the intrinsic gas is paid.
PayIntrinsic ==
    /\ UNCHANGED services
    /\ pc = "intrinsic"
    /\ LET role == IF msg.to = NoAddr THEN ""
                   ELSE GetAddressType(typeSlot[msg.to])
           creation == isContractCreation(msg.to, role)
           igas == IntrinsicGas(msg.data, creation, homestead)
           u == payIntrinsic(gas, igas)
       IN  /\ addressType' = role
           /\ contractCreation' = creation
           /\ intrinsicGas' = igas
           /\ gas' = u.gas
           /\ IF u.err # NoErr THEN Fail(u.err, "intrinsic")
              ELSE pc' = "dispatch" /\ UNCHANGED <<result, errAt>>
    /\ UNCHANGED <<world, gp, msg, txType, initialGas, vmerr, primitive,
                   appliedRefund, pre, block>>

\* TransitionDb: the dispatch on role and kind, and the execution primitive.
Dispatch ==
    /\ UNCHANGED services
    /\ pc = "dispatch"
    /\ LET row == dispatchRow(msg.to, addressType, txType, msg.data)
           target == IF row.name \in {"Template", "Create"} THEN Created ELSE msg.to
       IN  IF row.err # NoErr
           THEN /\ Fail(row.err, "dispatch")
                /\ UNCHANGED <<world, gas, vmerr, primitive>>
           ELSE \E o \in Execute(gas, balance[msg.from], msg.value, refund) :
                /\ nonce' = IF row.incNonce
                            THEN [nonce EXCEPT ![msg.from] = nonce[msg.from] + 1]
                            ELSE nonce
                /\ primitive' = [name |-> row.name, validators |-> row.validators,
                                 input |-> IF row.name = "Create"
                                           THEN templateCode(msg.to, msg.data,
                                                             coinbaseSlot[msg.to])
                                           ELSE msg.data.bytes,
                                 calls |-> primitive.calls + 1]
                /\ gas' = o.gas
                /\ vmerr' = o.err
                /\ refund' = o.refund
                /\ IF o.err = NoErr
                   THEN /\ balance' = Transfer(balance, msg.from, target, msg.value)
                        /\ exist' = exist \cup {target}
                   ELSE UNCHANGED <<balance, exist>>
                /\ IF isConsensusError(o.err)
                   THEN Fail(o.err, "dispatch")
                   ELSE /\ pc' = "refundGas"
                        /\ result' = [result EXCEPT !.ret = o.ret]
                        /\ errAt' = errAt
                /\ typeSlot' = IF o.retype /\ msg.to # NoAddr
                               THEN [typeSlot EXCEPT ![msg.to] = Retyped(@)]
                               ELSE typeSlot
                /\ coinbaseSlot' = IF o.recoin /\ addressType = "contract"
                                   THEN [coinbaseSlot EXCEPT ![msg.to] = Recoined(@)]
                                   ELSE coinbaseSlot
                /\ homestead' = homestead
    /\ UNCHANGED <<gp, msg, txType, initialGas, addressType, contractCreation,
                   intrinsicGas, appliedRefund, pre, block>>

\* TransitionDb: the gas required is recorded and refundGas runs.
RefundGas ==
    /\ UNCHANGED services
    /\ pc = "refundGas"
    /\ LET r == refundGas(balance[msg.from], gp, gas, initialGas, refund, msg.gasPrice)
       IN  /\ result' = [result EXCEPT !.requiredGas = Some(gasUsed(initialGas, gas))]
           /\ balance' = [balance EXCEPT ![msg.from] = r.balance]
           /\ gas' = r.gas
           /\ gp' = r.gp
           /\ appliedRefund' = r.refund
    /\ exist' = exist \cup {msg.from}
    /\ pc' = "reward"
    /\ UNCHANGED <<nonce, typeSlot, coinbaseSlot, refund, homestead, msg, txType,
                   initialGas, locals, errAt, pre, block>>

\* TransitionDb: the fee is credited and the result returned.
Reward ==
    /\ UNCHANGED services
    /\ pc = "reward"
    /\ LET used == gasUsed(initialGas, gas)
           secondary == IF addressType = "contract"
                        THEN CommonHash2Address(coinbaseSlot[msg.to])
                        ELSE NoAddr
       IN  /\ balance' = reward(balance, addressType, used, msg.gasPrice, secondary)
           /\ exist' = exist \cup {Coinbase} \cup
                         (IF addressType = "contract" THEN {secondary} ELSE {})
           /\ result' = [ret |-> result.ret, requiredGas |-> result.requiredGas,
                         usedGas |-> Some(used), failed |-> vmerr # NoErr,
                         err |-> NoErr]
    /\ pc' = "done"
    /\ UNCHANGED <<nonce, typeSlot, coinbaseSlot, refund, homestead, gp, msg, txType,
                   gas, initialGas, locals, errAt, appliedRefund, pre, block>>

\* ApplyMessage returns to the block processor, which goes on to the next
\* transaction with the same pool.
ApplyMessageReturn ==
    /\ UNCHANGED services
    /\ pc = "done"
    /\ pc' = "idle"
    /\ txCount' = txCount + 1
    /\ blockGasUsed' = IF result.err = NoErr THEN blockGasUsed + result.usedGas[1]
                       ELSE blockGasUsed
    /\ blockGasKept' = IF result.err # NoErr /\ errAt \in {"intrinsic", "dispatch"}
                       THEN blockGasKept + msg.gas ELSE blockGasKept
    /\ msg' = NoMsg
    /\ txType' = Binary
    /\ gas' = 0
    /\ initialGas' = 0
    /\ addressType' = ""
    /\ contractCreation' = FALSE
    /\ intrinsicGas' = 0
    /\ vmerr' = NoErr
    /\ primitive' = NoPrimitive
    /\ result' = NoResult
    /\ errAt' = "none"
    /\ appliedRefund' = 0
    /\ pre' = NoPre
    /\ UNCHANGED <<world, gp>>

Steps ==
    \/ PreCheck
    \/ BuyGas
    \/ PayIntrinsic
    \/ Dispatch
    \/ RefundGas
    \/ Reward
    \/ ApplyMessageReturn

\* One transition, from the state a block starts in.
ApplyMessage ==
    /\ pc = "idle"
    /\ txCount = 0
    /\ \E m \in Messages, t \in TxTypes : NewStateTransition(m, t)

\* The transitions of a block, one after another on the same pool.
ApplyBlockMessage ==
    /\ pc = "idle"
    /\ txCount < MaxTx
    /\ \E m \in BlockMessages, t \in BlockTxTypes : NewStateTransition(m, t)

Next == ApplyMessage \/ Steps
Spec == Init /\ [][Next]_vars

BlockNext == ApplyBlockMessage \/ Steps
BlockSpec == Init /\ [][BlockNext]_vars

(***************************************************************************)
(* The account classifier on its own: GetAddressType applied to the type   *)
(* slot of an address, for every value the slot may hold.                  *)
(***************************************************************************)
\* Values of a type slot: a tag, a string shorter than a tag, or nothing in
\* the first 8 bytes, followed by zero bytes or by more characters.
TypeWords ==
    {LongTypeWord(tag, rest) : tag \in {"", "templat", "template", "contract"},
                               rest \in {"", "s"}}
Classified == {"alice", "contract"}

ClassifyInit ==
    \E w \in [Classified -> TypeWords] :
        InitWith([a \in Addr |-> IF a \in Classified THEN w[a] ELSE DeployedTypes[a]])

\* TransitionDb's role read: GetAddressType(st.state.GetState(to, "type")).
Classify ==
    /\ UNCHANGED services
    /\ pc = "idle"
    /\ \E a \in Classified :
          /\ msg' = [NoMsg EXCEPT !.to = a]
          /\ addressType' = GetAddressType(typeSlot[a])
    /\ UNCHANGED <<world, gp, txType, gas, initialGas, pc, contractCreation,
                   intrinsicGas, vmerr, primitive, result, errAt, appliedRefund,
                   pre, block>>

ClassifyNext == Classify
ClassifySpec == ClassifyInit /\ [][ClassifyNext]_vars


(***************************************************************************)
(* kokash.Seal: the caller's goroutine, the search threads, and the stop   *)
(* and update signals it selects on.                                       *)
(***************************************************************************)
SealInit ==
    /\ StateInit(DeployedTypes)
    /\ homestead
    /\ \E n \in ThreadCounts, fake \in BOOLEAN : SealIdle(n, fake)
    /\ ServiceIdle(ZeroAddr, ZeroAddr, << >>, FALSE)

\* Seal is receiving from the found channel of round r.
Receiving(r) == sealPc = "select" /\ round = r

\* Fake mode: the block is returned at once with a zero nonce.
SealFake ==
    /\ sealPc = "idle"
    /\ fakeMode
    /\ sealed' = [block |-> FakeBlock, err |-> NoErr]
    /\ sealPc' = "returned"
    /\ UNCHANGED <<fakeMode, threads, seeded, stop, round, count, spawned, abort,
                   mine, taken>>
    /\ UNCHANGED <<transition, service>>

\* Seal up to its loop: the channels of the invocation are made, threads is
\* read and the random source seeded under the lock, threads is normalised.
\* It is entered by the caller and by Seal itself after an update.
SealEnter ==
    /\ sealPc \in {"idle", "restart"}
    /\ ~fakeMode
    /\ \E fails \in BOOLEAN :
          /\ seeded => ~fails
          /\ IF fails
             THEN /\ sealed' = [block |-> NoBlock, err |-> ErrSeed]
                  /\ sealPc' = "returned"
                  /\ UNCHANGED <<seeded, round, count, spawned, taken>>
             ELSE /\ seeded' = TRUE
                  /\ round' = round + 1
                  /\ count' = searchThreads(threads)
                  /\ spawned' = 0
                  /\ taken' = "none"
                  /\ sealPc' = "spawn"
                  /\ UNCHANGED sealed
    /\ UNCHANGED <<fakeMode, threads, stop, abort, mine>>
    /\ UNCHANGED <<transition, service>>

\* One turn of the loop: pend.Add(1) and go mine(...), or the loop ends.
Spawn ==
    /\ sealPc = "spawn"
    /\ IF spawned < count
       THEN /\ mine' = [mine EXCEPT ![round][spawned] = "select"]
            /\ spawned' = spawned + 1
            /\ UNCHANGED sealPc
       ELSE /\ sealPc' = "select"
            /\ UNCHANGED <<mine, spawned>>
    /\ UNCHANGED <<fakeMode, threads, seeded, stop, round, count, abort, taken, sealed>>
    /\ UNCHANGED <<transition, service>>

\* The caller closes the stop channel.
Stop ==
    /\ ~stop
    /\ stop' = TRUE
    /\ UNCHANGED <<fakeMode, threads, seeded, sealPc, round, count, spawned, abort,
                   mine, taken, sealed>>
    /\ UNCHANGED <<transition, service>>

\* case <-stop
SelectStop ==
    /\ sealPc = "select"
    /\ stop
    /\ taken' = "stop"
    /\ sealPc' = "abort"
    /\ UNCHANGED <<fakeMode, threads, seeded, stop, round, count, spawned, abort,
                   mine, sealed>>
    /\ UNCHANGED <<transition, service>>

\* case result = <-found, together with the send of thread id, which returns.
SelectFound(id) ==
    /\ sealPc = "select"
    /\ mine[round][id] = "found"
    /\ "found" \in deliverSelect(Receiving(round), abort[round])
    /\ sealed' = [block |-> SealedBy(round, id), err |-> NoErr]
    /\ mine' = [mine EXCEPT ![round][id] = "delivered"]
    /\ taken' = "found"
    /\ sealPc' = "abort"
    /\ UNCHANGED <<fakeMode, threads, seeded, stop, round, count, spawned, abort>>
    /\ UNCHANGED <<transition, service>>

\* case <-kokash.update: the thread count was changed to n.
SelectUpdate(n) ==
    /\ sealPc = "select"
    /\ round < MaxRounds
    /\ threads' = n
    /\ taken' = "update"
    /\ sealPc' = "abort"
    /\ UNCHANGED <<fakeMode, seeded, stop, round, count, spawned, abort, mine, sealed>>
    /\ UNCHANGED <<transition, service>>

\* close(abort), in the case taken.
CloseAbort ==
    /\ sealPc = "abort"
    /\ abort' = [abort EXCEPT ![round] = TRUE]
    /\ sealPc' = IF taken = "update" THEN "waitRestart" ELSE "wait"
    /\ UNCHANGED <<fakeMode, threads, seeded, stop, round, count, spawned, mine,
                   taken, sealed>>
    /\ UNCHANGED <<transition, service>>

\* pend.Wait() and return result, nil.
PendWait ==
    /\ sealPc = "wait"
    /\ pendWait(mine[round])
    /\ sealPc' = "returned"
    /\ UNCHANGED <<fakeMode, threads, seeded, stop, round, count, spawned, abort,
                   mine, taken, sealed>>
    /\ UNCHANGED <<transition, service>>

\* pend.Wait() of the update case, then return kokash.Seal(chain, block, stop).
PendWaitRestart ==
    /\ sealPc = "waitRestart"
    /\ pendWait(mine[round])
    /\ sealPc' = "restart"
    /\ UNCHANGED <<fakeMode, threads, seeded, stop, round, count, spawned, abort,
                   mine, taken, sealed>>
    /\ UNCHANGED <<transition, service>>

\* mine's select: abort is taken when it is closed, the default case otherwise.
MineSelect(r, id) ==
    /\ mine[r][id] = "select"
    /\ mine' = [mine EXCEPT ![r][id] = IF abort[r] THEN "aborted" ELSE "search"]
    /\ UNCHANGED <<fakeMode, threads, seeded, stop, sealPc, round, count, spawned,
                   abort, taken, sealed>>
    /\ UNCHANGED <<transition, service>>

\* The default case: one nonce is tried; it is below the target or not.
MineSearch(r, id) ==
    /\ mine[r][id] = "search"
    /\ \E below \in BOOLEAN :
          mine' = [mine EXCEPT ![r][id] = IF below THEN "found" ELSE "select"]
    /\ UNCHANGED <<fakeMode, threads, seeded, stop, sealPc, round, count, spawned,
                   abort, taken, sealed>>
    /\ UNCHANGED <<transition, service>>

\* case <-abort of the thread that found a nonce: the nonce is discarded.
MineDiscard(r, id) ==
    /\ mine[r][id] = "found"
    /\ "abort" \in deliverSelect(Receiving(r), abort[r])
    /\ mine' = [mine EXCEPT ![r][id] = "discarded"]
    /\ UNCHANGED <<fakeMode, threads, seeded, stop, sealPc, round, count, spawned,
                   abort, taken, sealed>>
    /\ UNCHANGED <<transition, service>>

SealStep ==
    \/ SealFake
    \/ SealEnter
    \/ Spawn
    \/ SelectStop
    \/ \E id \in Ids : SelectFound(id)
    \/ \E n \in ThreadCounts : SelectUpdate(n)
    \/ CloseAbort
    \/ PendWait
    \/ PendWaitRestart

MineStep(r, id) ==
    \/ MineSelect(r, id)
    \/ MineSearch(r, id)
    \/ MineDiscard(r, id)

SealNext ==
    \/ SealStep
    \/ Stop
    \/ \E r \in Rounds, id \in Ids : MineStep(r, id)

SealSpec == SealInit /\ [][SealNext]_vars

\* A goroutine that can take a step takes one: Seal is not held up while a
\* case of its select is ready, and neither is a thread that found a nonce
\* (a thread discards once, so fairness to the discards together is fairness
\* to each).
SealFairSpec ==
    /\ SealSpec
    /\ WF_vars(SealStep)
    /\ WF_vars(\E r \in Rounds, id \in Ids : MineDiscard(r, id))

(***************************************************************************)
(* kokereum: SetValidator, SetCoinbase called by several callers at once,  *)
(* and StartMining.                                                        *)
(***************************************************************************)
ServiceInit ==
    /\ StateInit(DeployedTypes)
    /\ homestead
    /\ SealIdle(0, FALSE)
    /\ \E v \in ServiceAddrs, c \in ServiceAddrs, accts \in Wallets, dpos \in BOOLEAN :
          ServiceIdle(v, c, accts, dpos)

SetValidator(a) ==
    /\ validatorField' = a
    /\ UNCHANGED <<coinbaseField, accounts, dposEngine, setPc, setArg, minerCoinbase,
                   startPc, startValidator, started>>
    /\ UNCHANGED <<transition, sealer>>

\* SetCoinbase under the lock: self.coinbase = coinbase.
SetCoinbaseStore(k, a) ==
    /\ setPc[k] = "idle"
    /\ coinbaseField' = a
    /\ setArg' = [setArg EXCEPT ![k] = a]
    /\ setPc' = [setPc EXCEPT ![k] = "stored"]
    /\ UNCHANGED <<validatorField, accounts, dposEngine, minerCoinbase, startPc,
                   startValidator, started>>
    /\ UNCHANGED <<transition, sealer>>

\* SetCoinbase after the lock is released: self.miner.SetCoinbase(coinbase).
SetCoinbaseMiner(k) ==
    /\ setPc[k] = "stored"
    /\ minerCoinbase' = setArg[k]
    /\ setPc' = [setPc EXCEPT ![k] = "done"]
    /\ UNCHANGED <<validatorField, coinbaseField, accounts, dposEngine, setArg,
                   startPc, startValidator, started>>
    /\ UNCHANGED <<transition, sealer>>

\* StartMining up to its call of Coinbase().
StartMiningValidator ==
    /\ startPc = "idle"
    /\ LET v == kokereumValidator(validatorField, accounts)
       IN  IF v.err # NoErr
           THEN /\ started' = [NotStarted EXCEPT !.err = ErrValidatorMissing]
                /\ startPc' = "returned"
                /\ UNCHANGED startValidator
           ELSE /\ startValidator' = v.addr
                /\ startPc' = "coinbase"
                /\ UNCHANGED started
    /\ UNCHANGED <<validatorField, coinbaseField, accounts, dposEngine, setPc, setArg,
                   minerCoinbase>>
    /\ UNCHANGED <<transition, sealer>>

\* StartMining from its call of Coinbase() to its return.
StartMiningCoinbase(local) ==
    /\ startPc = "coinbase"
    /\ LET cb == kokereumCoinbase(coinbaseField, accounts)
       IN  started' =
              IF cb.err # NoErr
              THEN [NotStarted EXCEPT !.err = ErrCoinbaseMissing]
              ELSE IF dposEngine /\ ~Find(accounts, startValidator)
              THEN [NotStarted EXCEPT !.err = ErrSignerMissing]
              ELSE [err |-> NoErr, miner |-> TRUE, coinbase |-> cb.addr,
                    acceptTxs |-> local]
    /\ startPc' = "returned"
    /\ UNCHANGED <<validatorField, coinbaseField, accounts, dposEngine, setPc, setArg,
                   minerCoinbase, startValidator>>
    /\ UNCHANGED <<transition, sealer>>

ServiceNext ==
    \/ \E a \in ServiceAddrs : SetValidator(a)
    \/ \E k \in Callers, a \in ServiceAddrs : SetCoinbaseStore(k, a)
    \/ \E k \in Callers : SetCoinbaseMiner(k)
    \/ StartMiningValidator
    \/ \E local \in BOOLEAN : StartMiningCoinbase(local)

ServiceSpec == ServiceInit /\ [][ServiceNext]_vars


(***************************************************************************)
(* Properties.                                                             *)
(***************************************************************************)
Sender == msg.from
Purchase == msg.gas * msg.gasPrice
\* preCheck's nonce comparison has passed.
LeftPreCheck ==
    \/ pc \in {"buyGas", "intrinsic", "dispatch", "refundGas", "reward"}
    \/ pc = "done" /\ errAt # "preCheck"
\* buyGas has succeeded.
Purchased ==
    \/ pc \in {"intrinsic", "dispatch", "refundGas", "reward"}
    \/ pc = "done" /\ errAt \notin {"preCheck", "buyGas"}
\* buyGas has returned.
LeftBuyGas == Purchased \/ (pc = "done" /\ errAt = "buyGas")
Returned == pc = "done"
Completed == pc = "done" /\ result.err = NoErr
FailedAfterPurchase == pc = "done" /\ result.err # NoErr /\ errAt \in {"intrinsic", "dispatch"}
Untouched == balance = pre.balance /\ nonce = pre.nonce /\ gp = pre.gp

\* C1 as stated: the pool is never negative and, between transitions, holds the
\* block gas limit minus the sum of the gasUsed values of the completed
\* transitions, whether the other transitions of the sequence failed or not.
C1_PoolEndsAtLimitMinusUsed ==
    /\ gp >= 0
    /\ pc = "idle" => gp = BlockGasLimit - blockGasUsed

\* C1, amended: the pool is never negative and, between transitions, holds the
\* block gas limit minus the gasUsed of the completed transitions minus the
\* limits purchased by the transitions that failed after their purchase; within
\* a transition the pool drops by exactly the limit in buyGas and rises only in
\* refundGas, by the gas left unused.
C1_PoolStep ==
    /\ (pc = "buyGas" /\ pc' = "intrinsic") => gp' = gp - msg.gas
    /\ gp' < gp => pc = "buyGas"
    /\ gp' > gp => (pc = "refundGas" /\ gp' - gp = gas')
    /\ pc = "refundGas" => (gp' = gp + gas' /\ gas' = initialGas - (result'.requiredGas[1] - appliedRefund'))
C1_PoolConservation ==
    /\ [](/\ gp >= 0
          /\ pc = "idle" => gp = BlockGasLimit - blockGasUsed - blockGasKept)
    /\ [][C1_PoolStep]_vars
C1_Witness ==
    pc = "idle" /\ txCount = 2 /\ blockGasUsed > 0 /\ blockGasKept > 0 /\ gp < BlockGasLimit

\* C2 as stated: a transition that returns a fatal error has changed no balance,
\* no nonce and not the pool.
C2_ListedError ==
    \/ result.err \in {ErrNonceTooHigh, ErrNonceTooLow, errInsufficientBalanceForGas,
                       ErrGasLimitReached, ErrInsufficientBalance, ErrInvalidType,
                       ErrInvalidInput}
    \/ result.err = ErrOutOfGas /\ errAt = "buyGas"
C2_FatalErrorNoEffect ==
    (Returned /\ C2_ListedError) => Untouched

\* C2, amended: an error returned by preCheck or buyGas leaves balances, nonces
\* and pool untouched; an error returned after the purchase leaves the sender
\* debited by limit x price and the pool reduced by the limit, every other
\* balance untouched, and every nonce untouched except the sender's, which is
\* already incremented when the backend reports insufficient balance on a row
\* that increments it.
C2_FatalErrorEffect ==
    (Returned /\ result.err # NoErr) =>
        /\ errAt \in {"preCheck", "buyGas", "intrinsic", "dispatch"}
        /\ errAt \in {"preCheck", "buyGas"} => Untouched
        /\ errAt \in {"intrinsic", "dispatch"} =>
            /\ balance = [pre.balance EXCEPT ![Sender] = @ - Purchase]
            /\ gp = pre.gp - msg.gas
            /\ result.err # ErrInsufficientBalance => nonce = pre.nonce
            /\ result.err = ErrInsufficientBalance =>
                 nonce = IF dispatchRow(msg.to, addressType, txType, msg.data).incNonce
                         THEN [pre.nonce EXCEPT ![Sender] = @ + 1]
                         ELSE pre.nonce
C2_Witness ==
    /\ Returned
    /\ result.err = ErrInsufficientBalance
    /\ nonce[Sender] = pre.nonce[Sender] + 1
    /\ Purchase > 0

\* C3: once buyGas has succeeded the purchase is never rolled back: an error
\* returned after it leaves the sender debited by limit x price and the pool
\* reduced by the limit; no step but refundGas gives gas back to the pool or
\* re-credits the sender for gas, and refundGas credits the unused gas at the
\* gas price.
C3_Step ==
    Purchased =>
        /\ gp' # gp => (pc = "refundGas" /\ gp' = gp + gas')
        /\ pc = "intrinsic" => balance' = balance
        /\ (pc = "dispatch" /\ pc' = "done") => balance' = balance
        /\ pc = "refundGas" => balance' = [balance EXCEPT ![Sender] = @ + gas' * msg.gasPrice]
        /\ (pc = "reward" /\ Sender # Coinbase
              /\ ~(addressType = "contract" /\ Sender = CommonHash2Address(coinbaseSlot[msg.to])))
             => balance'[Sender] = balance[Sender]
C3_PurchaseNotRolledBack ==
    /\ [](FailedAfterPurchase =>
            /\ balance[Sender] = pre.balance[Sender] - Purchase
            /\ gp = pre.gp - msg.gas)
    /\ [][C3_Step]_vars
C3_Witness ==
    FailedAfterPurchase /\ result.err = ErrInvalidInput /\ Purchase > 0

\* C5: with nonce checking the transition goes on to the gas purchase only when
\* the sender's nonce equals the message's; a lower state nonce returns the
\* nonce-too-high error, a higher one the nonce-too-low error, and both leave
\* balances, nonces and pool untouched; without nonce checking no nonce error
\* is returned.
C5_NoncePrecheck ==
    /\ (LeftPreCheck /\ msg.checkNonce) => pre.nonce[Sender] = msg.nonce
    /\ (pc \notin {"idle", "preCheck"} /\ msg.checkNonce /\ pre.nonce[Sender] < msg.nonce)
         => (Returned /\ result.err = ErrNonceTooHigh /\ Untouched)
    /\ (pc \notin {"idle", "preCheck"} /\ msg.checkNonce /\ pre.nonce[Sender] > msg.nonce)
         => (Returned /\ result.err = ErrNonceTooLow /\ Untouched)
    /\ (pc \notin {"idle", "preCheck"} /\ ~msg.checkNonce) => LeftPreCheck
    /\ (Returned /\ errAt = "preCheck") => result.err \in {ErrNonceTooHigh, ErrNonceTooLow}
C5_Witness ==
    Returned /\ result.err = ErrNonceTooHigh /\ msg.nonce = pre.nonce[Sender] + 1

\* C6 as stated: buyGas returns the insufficient-balance error exactly when the
\* sender's balance is below limit x price.
C6_InsufficientExactlyWhenBelow ==
    LeftBuyGas =>
        ((result.err = errInsufficientBalanceForGas) <=> (pre.balance[Sender] < Purchase))

\* C6, amended: for a gas limit that fits the gas width, buyGas returns the
\* insufficient-balance error exactly when the sender's balance is below
\* limit x price (a wider limit is rejected first, as out of gas); the error
\* leaves pool, balances and working gas untouched; a balance equal to
\* limit x price passes the balance check and a purchase made with it leaves
\* the sender with balance 0.
C6_BalanceCheck ==
    LeftBuyGas =>
        /\ (result.err = errInsufficientBalanceForGas)
             <=> (~TooWide(msg.gas) /\ pre.balance[Sender] < Purchase)
        /\ result.err = errInsufficientBalanceForGas =>
             (Untouched /\ gas = 0 /\ errAt = "buyGas")
        /\ (pc = "intrinsic" /\ pre.balance[Sender] = Purchase) => balance[Sender] = 0
        /\ (~TooWide(msg.gas) /\ pre.balance[Sender] = Purchase /\ pre.gp >= msg.gas)
             => Purchased
C6_Witness ==
    pc = "intrinsic" /\ pre.balance[Sender] = Purchase /\ Purchase > 0 /\ balance[Sender] = 0

\* C7: when the pool holds less than the gas limit buyGas fails and leaves the
\* pool, the sender's balance and the working gas (0) as they were; when it
\* succeeds the pool is lower by the limit, the sender's balance lower by
\* limit x price, and the working gas and the initial gas equal the limit.
C7_PoolExhausted ==
    /\ (LeftBuyGas /\ pre.gp < msg.gas) =>
         (Returned /\ errAt = "buyGas" /\ result.err # NoErr /\ Untouched /\ gas = 0)
    /\ pc = "intrinsic" =>
         /\ gp = pre.gp - msg.gas
         /\ balance = [pre.balance EXCEPT ![Sender] = @ - Purchase]
         /\ gas = msg.gas
         /\ initialGas = msg.gas
C7_Witness ==
    Returned /\ result.err = ErrGasLimitReached /\ pre.gp < msg.gas /\ pre.balance[Sender] >= Purchase

\* C8: the working gas is never negative and never above the initial gas
\* purchased: after the purchase, the intrinsic charge, the execution and the
\* refund.
C8_RemainingGasBounded ==
    0 <= gas /\ gas <= initialGas
C8_Witness ==
    pc = "reward" /\ appliedRefund > 0 /\ gas > appliedRefund

\* C9 as stated: the refund added by refundGas is at most half of the gasUsed
\* returned for the transition.
C9_RefundAtMostHalfOfReturnedGasUsed ==
    Completed => appliedRefund <= result.usedGas[1] \div 2

\* C9, amended: the refund added by refundGas is at most half of the gas used
\* before the refund is added (the gasRequired returned), whatever the refund
\* counter holds; it is the difference between gasRequired and gasUsed.
C9_RefundCap ==
    Completed =>
        /\ appliedRefund <= result.requiredGas[1] \div 2
        /\ appliedRefund <= refund
        /\ appliedRefund = result.requiredGas[1] - result.usedGas[1]
C9_Witness ==
    Completed /\ appliedRefund > 0 /\ appliedRefund < refund

\* C10 as stated: a completed transition returns gasUsed = initial gas minus
\* remaining gas, and gasUsed is at least the intrinsic gas charged.
C10_GasUsedAtLeastIntrinsic ==
    Completed =>
        /\ result.usedGas[1] = initialGas - gas
        /\ result.usedGas[1] >= intrinsicGas

\* C10, amended: a completed transition returns gasUsed = initial gas minus
\* remaining gas; the gas used before the refund (gasRequired) is at least the
\* intrinsic gas, and gasUsed is at least the intrinsic gas minus the refund
\* applied.
C10_GasUsed ==
    Completed =>
        /\ result.usedGas[1] = initialGas - gas
        /\ result.usedGas[1] = msg.gas - gas
        /\ result.requiredGas[1] >= intrinsicGas
        /\ result.usedGas[1] >= intrinsicGas - appliedRefund
        /\ intrinsicGas = IntrinsicGas(msg.data, contractCreation, homestead)
C10_Witness ==
    Completed /\ appliedRefund > 0 /\ result.usedGas[1] < intrinsicGas

\* C11: refundGas credits the sender (remaining gas + applied refund) x the
\* gas price of the message, where the applied refund is the smaller of the
\* refund counter and half of the gas used before the refund, and returns the
\* same amount of gas (remaining + applied refund) to the pool.
C11_RefundCredit ==
    [][pc = "refundGas" =>
        LET usedBefore == initialGas - gas
            applied == IF refund < usedBefore \div 2 THEN refund
                       ELSE usedBefore \div 2
        IN  /\ appliedRefund' = applied
            /\ balance' = [balance EXCEPT
                             ![Sender] = @ + (gas + applied) * msg.gasPrice]
            /\ gp' = gp + gas + applied
            /\ gas' = gas + applied
            /\ msg' = msg]_vars
C11_Witness ==
    /\ pc = "reward"
    /\ appliedRefund > 0
    /\ gas > appliedRefund
    /\ msg.gasPrice > 1
    /\ balance[Sender] > pre.balance[Sender] - Purchase

\* C12: the fee is split exactly when the role read for the recipient is
\* contract: the address in the recipient's coinbase slot is credited
\* floor(gasUsed / 10) x price and the block's beneficiary the rest of
\* gasUsed x price; for every other role the block's beneficiary is credited
\* gasUsed x price and nobody else is credited. For gasUsed 100 and price 5
\* the shares are 50 and 450, or 500 unsplit.
C12_Example ==
    LET l == Layer(100, 1)
    IN  /\ l.gas_coinbase * 5 = 50
        /\ l.gas_mine * 5 = 450
        /\ l.gas_mine * 5 + l.gas_coinbase * 5 = 500
C12_RewardSplit ==
    [][pc = "reward" =>
        LET used == initialGas - gas
            tenth == used \div 10
            price == msg.gasPrice
        IN  /\ C12_Example
            /\ IF addressType = "contract"
               THEN LET secondary == coinbaseSlot[msg.to].first20
                        primaryPaid == [balance EXCEPT
                                          ![Coinbase] = @ + (used - tenth) * price]
                    IN  balance' = [primaryPaid EXCEPT
                                      ![secondary] = @ + tenth * price]
               ELSE balance' = [balance EXCEPT ![Coinbase] = @ + used * price]]_vars
C12_Witness ==
    /\ Completed
    /\ addressType = "contract"
    /\ msg.gasPrice > 1
    /\ result.usedGas[1] % 10 # 0
    /\ Sender # Coinbase
    /\ balance[Coinbase] > pre.balance[Coinbase]
    /\ balance[Coinbase] < pre.balance[Coinbase] + result.usedGas[1] * msg.gasPrice

\* The transition got as far as the dispatch and left it.
ReachedDispatch ==
    pc \in {"refundGas", "reward"} \/ (pc = "done" /\ errAt \in {"dispatch", "none"})
\* The role read for the recipient and the kind of the transaction form a row
\* of the dispatch table.
ListedRow ==
    \/ addressType = "template" /\ txType \in {Binary, SourceCode, Endorse}
    \/ addressType = "contract" /\ txType \in {Endorse, Binary}
    \/ addressType = "normal" /\ txType \in {Endorse, Binary} \cup GovernanceKinds

\* C13: a transition to a recipient whose (role, kind) pair is not a row of
\* the dispatch table returns the invalid-kind error with no primitive invoked
\* and the sender's nonce as it was; the role is one of the three roles, and no
\* transition leaves the dispatch with no primitive invoked and no error.
C13_MatrixComplete ==
    /\ addressType \in {"", "template", "contract", "normal"}
    /\ (ReachedDispatch /\ msg.to # NoAddr /\ ~ListedRow) =>
          /\ Returned
          /\ result.err = ErrInvalidType
          /\ primitive = NoPrimitive
          /\ nonce = pre.nonce
    /\ (ReachedDispatch /\ primitive.calls = 0) =>
          /\ Returned
          /\ result.err \in {ErrInvalidType, ErrInvalidInput}
C13_Witness ==
    /\ Returned
    /\ errAt = "dispatch"
    /\ addressType = "contract"
    /\ txType = SourceCode
    /\ result.err = ErrInvalidType

C15_NonceStep ==
    IF /\ pc = "dispatch"
       /\ primitive'.calls = 1
       /\ ~(msg.to = NoAddr \/ (addressType = "template" /\ txType = Binary))
    THEN nonce' = [nonce EXCEPT ![Sender] = @ + 1]
    ELSE nonce' = nonce
C15_NoncePolicy ==
    /\ []((Returned /\ result.err = ErrInsufficientBalance) =>
            nonce[Sender] = pre.nonce[Sender] +
                (IF primitive.name \in {"Template", "Create"} THEN 0 ELSE 1))
    /\ [][C15_NonceStep]_vars
C15_Witness ==
    /\ Completed
    /\ primitive.name = "Create"
    /\ msg.value > 0
    /\ nonce = pre.nonce

\* C16: for Binary to a template the init code handed to the creation
\* primitive is the template's code, then the payload when it is not empty,
\* then 20 bytes of the template's coinbase slot, then the 20 bytes of the
\* recipient's address, in that order; its length is
\* len(code) + len(payload) + 40.
C16_TemplateInitCode ==
    primitive.name = "Create" =>
        LET code == GetCode(msg.to)
            payload == msg.data.bytes
            n == Len(code) + Len(payload)
            slotBytes == AddressBytes(coinbaseSlot[msg.to].first20)
            toBytes == AddressBytes(msg.to)
        IN  /\ addressType = "template" /\ txType = Binary
            /\ Len(primitive.input) = Len(code) + Len(payload) + 40
            /\ SubSeq(primitive.input, 1, Len(code)) = code
            /\ SubSeq(primitive.input, Len(code) + 1, n) = payload
            /\ SubSeq(primitive.input, n + 1, n + 20) = slotBytes
            /\ SubSeq(primitive.input, n + 21, n + 40) = toBytes
C16_Witness ==
    /\ Completed
    /\ primitive.name = "Create"
    /\ Len(msg.data.bytes) > 0
    /\ Len(GetCode(msg.to)) > 0
    /\ AddressBytes(coinbaseSlot[msg.to].first20) # AddressBytes(msg.to)

\* C17: for a governance kind (login candidate, logout candidate, delegate,
\* undelegate) sent to a normal recipient, the dispatch fails with the
\* invalid-input error if and only if the payload has a length above 0; with a
\* payload of length 0 the sender's nonce is incremented and the plain call is
\* invoked with the validator set.
C17_InvalidInputIffNonEmpty ==
    (ReachedDispatch /\ msg.to # NoAddr /\ addressType = "normal"
       /\ txType \in GovernanceKinds) =>
        /\ (Returned /\ result.err = ErrInvalidInput) <=> Len(msg.data.bytes) > 0
        /\ Len(msg.data.bytes) = 0 =>
              /\ primitive.name = "Call"
              /\ primitive.validators
              /\ nonce[Sender] = pre.nonce[Sender] + 1

\* C18: when the primitive returns an error other than insufficient balance,
\* TransitionDb goes on through refundGas and the reward and returns a nil
\* error with failed = true; the gas reported used is paid by the sender and
\* credited as the fee, and leaves the pool. failed is true exactly when the
\* primitive returned an error and that error was not returned as the
\* transition's error.
C18_FailureAbsorbed ==
    /\ Returned => (result.failed <=> (vmerr # NoErr /\ result.err = NoErr))
    /\ vmerr \notin {NoErr, ErrInsufficientBalance} =>
          /\ pc \in {"refundGas", "reward", "done"}
          /\ Returned =>
                /\ result.err = NoErr
                /\ result.failed
                /\ result.requiredGas # Nil
                /\ result.usedGas # Nil
                /\ LET used == result.usedGas[1]
                       price == msg.gasPrice
                       tenth == used \div 10
                       paid == [pre.balance EXCEPT ![Sender] = @ - used * price]
                       mined == [paid EXCEPT ![Coinbase] = @ + (used - tenth) * price]
                   IN  /\ used = result.requiredGas[1] - appliedRefund
                       /\ gp = pre.gp - used
                       /\ balance =
                            IF addressType = "contract"
                            THEN [mined EXCEPT ![coinbaseSlot[msg.to].first20] =
                                                   @ + tenth * price]
                            ELSE [paid EXCEPT ![Coinbase] = @ + used * price]
C18_Witness ==
    /\ Completed
    /\ result.failed
    /\ vmerr = ErrExecution
    /\ Sender # Coinbase
    /\ appliedRefund > 0
    /\ balance[Sender] < pre.balance[Sender]

\* C19: when the primitive returns insufficient balance, TransitionDb returns
\* that error with nil output, nil gas values and failed = false, and neither
\* refundGas nor the reward runs: the sender stays debited by limit x price and
\* the pool reduced by the limit. No other error of a primitive is returned as
\* the transition's error.
C19_OnlyInsufficientBalancePropagates ==
    /\ vmerr = ErrInsufficientBalance =>
          /\ Returned
          /\ result = [ret |-> Nil, requiredGas |-> Nil, usedGas |-> Nil,
                       failed |-> FALSE, err |-> ErrInsufficientBalance]
          /\ appliedRefund = 0
          /\ gp = pre.gp - msg.gas
          /\ balance = [pre.balance EXCEPT ![Sender] = @ - Purchase]
    /\ (Returned /\ primitive.calls > 0 /\ result.err # NoErr) =>
          /\ result.err = ErrInsufficientBalance
          /\ vmerr = ErrInsufficientBalance
C19_Witness ==
    /\ Returned
    /\ result.err = ErrInsufficientBalance
    /\ primitive.name = "Call"
    /\ primitive.validators
    /\ gp < pre.gp

\* The scenario of C20: a Binary message to a normal recipient from a sender
\* whose balance is exactly limit x price, with a nonce that passes, a limit
\* that fits, is in the pool and covers the intrinsic gas.
C20_Scenario ==
    /\ Returned
    /\ msg.to # NoAddr
    /\ GetAddressType(pre.typeSlot[msg.to]) = "normal"
    /\ txType = Binary
    /\ pre.balance[Sender] = Purchase
    /\ ~msg.checkNonce \/ pre.nonce[Sender] = msg.nonce
    /\ ~TooWide(msg.gas)
    /\ msg.gas <= pre.gp
    /\ msg.gas >= IntrinsicGas(msg.data, FALSE, homestead)

\* C20 as stated: in the scenario, with a value transferred to the recipient,
\* the transition succeeds with a nil error and the sender's final balance is
\* 0 plus the refund of the unused gas at the original price.
C20_ExactBalanceSucceeds ==
    (C20_Scenario /\ msg.value > 0 /\ Sender # Coinbase) =>
        /\ result.err = NoErr
        /\ balance[Sender] = gas * msg.gasPrice

\* C20, amended: in the scenario a message of value 0 succeeds with a nil
\* error and the sender's final balance is the unused gas (refund included) at
\* the original price, plus the fee when the sender is the block's
\* beneficiary; with a value above 0 the sender, left with balance 0 by the
\* purchase, cannot pay the value, the backend's insufficient-balance error is
\* returned and the sender's balance stays 0.
C20_ExactBalance ==
    C20_Scenario =>
        IF msg.value > 0
        THEN /\ result.err = ErrInsufficientBalance
             /\ balance[Sender] = 0
        ELSE /\ result.err = NoErr
             /\ balance[Sender] = gas * msg.gasPrice +
                  (IF Sender = Coinbase THEN result.usedGas[1] * msg.gasPrice ELSE 0)
C20_Witness ==
    /\ C20_Scenario
    /\ Completed
    /\ msg.value = 0
    /\ Sender # Coinbase
    /\ ~result.failed
    /\ appliedRefund > 0
    /\ balance[Sender] > 0

\* C21: when the message has no recipient the role is not read (the local
\* role stays empty whatever the type slots hold), the creation pricing
\* applies, the creation primitive is invoked with the payload for every kind
\* and every payload, no invalid-kind or invalid-input error is returned, and
\* the reward credits the whole fee to the block's beneficiary.
C21_Step ==
    (msg.to = NoAddr /\ pc = "reward") =>
        balance' = [balance EXCEPT ![Coinbase] = @ + (initialGas - gas) * msg.gasPrice]
C21_NoRecipient ==
    /\ []((msg.to = NoAddr /\ pc # "idle") =>
            /\ addressType = ""
            /\ result.err \notin {ErrInvalidType, ErrInvalidInput}
            /\ ReachedDispatch =>
                  /\ contractCreation
                  /\ primitive.name = "Template"
                  /\ primitive.calls = 1
                  /\ primitive.input = msg.data.bytes)
    /\ [][C21_Step]_vars
C21_Witness ==
    /\ Completed
    /\ msg.to = NoAddr
    /\ txType \in GovernanceKinds
    /\ Len(msg.data.bytes) > 0
    /\ msg.gasPrice > 0
    /\ balance[Coinbase] = pre.balance[Coinbase] + result.usedGas[1] * msg.gasPrice

\* C22: one transition runs its steps in the order nonce check, gas purchase,
\* role read with intrinsic gas charge, one dispatch to the backend, refund,
\* reward, return. The backend is invoked only at the dispatch, once, with the
\* gas purchased and the intrinsic gas charged; the reward runs only after the
\* refund; a step that returns an error is followed by no other step, so a
\* failed transition shows no refund and no reward, and nothing changes the
\* world or the pool after the return.
C22_Order ==
    {<<"idle", "preCheck">>, <<"preCheck", "buyGas">>, <<"buyGas", "intrinsic">>,
     <<"intrinsic", "dispatch">>, <<"dispatch", "refundGas">>,
     <<"refundGas", "reward">>, <<"reward", "done">>, <<"done", "idle">>}
C22_Step ==
    /\ pc' # pc =>
          \/ <<pc, pc'>> \in C22_Order
          \/ /\ pc \in {"preCheck", "buyGas", "intrinsic", "dispatch"}
             /\ pc' = "done"
             /\ result'.err # NoErr
             /\ errAt' = pc
    /\ (pc = "reward" /\ pc' = "done") => result'.err = NoErr
    /\ (primitive' # primitive /\ pc # "done") =>
          /\ pc = "dispatch"
          /\ primitive.calls = 0
          /\ primitive'.calls = 1
          /\ initialGas = msg.gas
          /\ gp = pre.gp - msg.gas
          /\ balance[Sender] = pre.balance[Sender] - Purchase
          /\ gas = msg.gas - intrinsicGas
          /\ ~msg.checkNonce \/ pre.nonce[Sender] = msg.nonce
    /\ pc = "reward" => (result.requiredGas # Nil /\ gp = pre.gp - (initialGas - gas))
    /\ pc = "done" => (world' = world /\ gp' = gp)
C22_StepOrder ==
    /\ []((Returned /\ result.err # NoErr) =>
            /\ result.requiredGas = Nil
            /\ result.usedGas = Nil
            /\ appliedRefund = 0
            /\ errAt \in {"preCheck", "buyGas", "intrinsic"} => primitive.calls = 0
            /\ errAt = "preCheck" => (gp = pre.gp /\ balance = pre.balance)
            /\ balance[Coinbase] <= pre.balance[Coinbase])
    /\ [][C22_Step]_vars
C22_Witness ==
    /\ Completed
    /\ msg.checkNonce
    /\ primitive.calls = 1
    /\ intrinsicGas > 0
    /\ appliedRefund > 0
    /\ result.requiredGas # Nil
    /\ balance[Coinbase] > pre.balance[Coinbase]

\* C23: IntrinsicGas(data, creation, upgradeActive) is the creation base cost
\* when creation and upgradeActive are both true and the plain base cost
\* otherwise, plus the number of non-zero bytes of data x the non-zero-byte
\* rate, plus the number of zero bytes x the zero-byte rate; for data of length
\* 0 it is the base cost alone. It is what TransitionDb charges, with creation
\* true for a message without recipient or to a template.
C23_IntrinsicGas ==
    /\ \A d \in Payloads, creation \in BOOLEAN, upgradeActive \in BOOLEAN :
          LET base == IF creation /\ upgradeActive THEN TxGasContractCreation
                      ELSE TxGas
              nonZero == {i \in DOMAIN d.bytes : d.bytes[i] # 0}
              zero == {i \in DOMAIN d.bytes : d.bytes[i] = 0}
          IN  /\ IntrinsicGas(d, creation, upgradeActive) =
                    base + Cardinality(nonZero) * TxDataNonZeroGas
                         + Cardinality(zero) * TxDataZeroGas
              /\ Len(d.bytes) = 0 => IntrinsicGas(d, creation, upgradeActive) = base
    /\ (Purchased /\ pc # "intrinsic") =>
          /\ contractCreation <=> (msg.to = NoAddr \/ addressType = "template")
          /\ intrinsicGas = IntrinsicGas(msg.data, contractCreation, homestead)
          /\ (contractCreation /\ ~homestead /\ msg.data.isNil) => intrinsicGas = TxGas
C23_Witness ==
    /\ pc = "dispatch"
    /\ contractCreation
    /\ homestead
    /\ Len(msg.data.bytes) > 0
    /\ msg.data.bytes[1] = 0
    /\ intrinsicGas = TxGasContractCreation + TxDataZeroGas
    /\ gas = msg.gas - intrinsicGas

\* C24: a gas limit that does not fit in 64 bits is rejected by buyGas with
\* balances, nonces, pool and working gas as they were, and no transition with
\* such a limit gets past buyGas; an intrinsic gas cost that does not fit makes
\* the intrinsic step return the out-of-gas error with the working gas as it
\* was, also when the truncated cost could be paid, so no primitive is ever
\* invoked with a limit or an intrinsic cost that does not fit.
C24_WidthChecks ==
    /\ TooWide(msg.gas) =>
          /\ pc \in {"preCheck", "buyGas", "done"}
          /\ (Returned /\ errAt # "preCheck") =>
                /\ errAt = "buyGas"
                /\ result.err = ErrOutOfGas
                /\ Untouched
                /\ gas = 0 /\ initialGas = 0
    /\ \A g \in {0, TxGas, BigLimit} :
          \A igas \in {Pow2(UintBits), Pow2(UintBits) + TxGas} :
              payIntrinsic(g, igas) = [err |-> ErrOutOfGas, gas |-> g]
    /\ primitive.calls > 0 => (~TooWide(msg.gas) /\ ~TooWide(intrinsicGas))
C24_Witness ==
    /\ Returned
    /\ errAt = "buyGas"
    /\ TooWide(msg.gas)
    /\ result.err = ErrOutOfGas
    /\ Uint64(msg.gas) * msg.gasPrice <= pre.balance[Sender]
    /\ Uint64(msg.gas) <= pre.gp
    /\ msg.gasPrice > 0

\* C25: useGas(amount) returns the out-of-gas error exactly when the amount
\* exceeds the remaining working gas, leaving the working gas as it was, and
\* otherwise takes exactly the amount off the working gas; so a message whose
\* limit is below its intrinsic gas makes TransitionDb return the out-of-gas
\* error with no primitive invoked, and one whose limit equals it goes on.
C25_Step ==
    pc = "intrinsic" =>
        LET creation == msg.to = NoAddr
                          \/ GetAddressType(typeSlot[msg.to]) = "template"
            amount == IntrinsicGas(msg.data, creation, homestead)
        IN  IF amount > gas
            THEN /\ pc' = "done"
                 /\ result'.err = ErrOutOfGas
                 /\ gas' = gas
                 /\ primitive' = NoPrimitive
            ELSE /\ pc' = "dispatch"
                 /\ gas' = gas - amount
C25_GasSpend ==
    /\ []((Returned /\ msg.gas < intrinsicGas /\ errAt \notin {"preCheck", "buyGas"}) =>
            /\ errAt = "intrinsic"
            /\ result.err = ErrOutOfGas
            /\ primitive.calls = 0)
    /\ [][C25_Step]_vars
C25_Witness ==
    /\ Returned
    /\ errAt = "intrinsic"
    /\ result.err = ErrOutOfGas
    /\ msg.gas = intrinsicGas - TxDataZeroGas
    /\ gas = msg.gas
    /\ primitive.calls = 0

\* C26: the recipient's role is read from the world state once per
\* transition, in the step that charges the intrinsic gas and before the
\* charge; no other step changes the value read. That value decides the
\* creation pricing, the row of the dispatch and whether the reward is split,
\* also when the primitive has rewritten the recipient's type slot.
C26_Step ==
    /\ pc = "intrinsic" =>
          /\ addressType' = IF msg.to = NoAddr THEN ""
                            ELSE GetAddressType(typeSlot[msg.to])
          /\ contractCreation' = (msg.to = NoAddr \/ addressType' = "template")
          /\ typeSlot' = typeSlot
    /\ pc \notin {"intrinsic", "done"} =>
          /\ addressType' = addressType
          /\ contractCreation' = contractCreation
    /\ (pc = "dispatch" /\ msg.to # NoAddr /\ primitive'.calls = 1) =>
          primitive'.name \in
              CASE addressType = "template" -> {"Create", "SourceCode", "Endorse"}
                [] addressType = "contract" -> {"Call", "Endorse"}
                [] addressType = "normal" -> {"Call", "Endorse"}
    /\ pc = "reward" =>
          LET whole == [balance EXCEPT
                          ![Coinbase] = @ + (initialGas - gas) * msg.gasPrice]
          IN  /\ addressType # "contract" => balance' = whole
              /\ (addressType = "contract" /\ msg.gasPrice > 0) => balance' # whole
C26_RoleReadOnce ==
    /\ []((Purchased /\ pc # "intrinsic" /\ msg.to # NoAddr) =>
            addressType = GetAddressType(pre.typeSlot[msg.to]))
    /\ [][C26_Step]_vars
C26_Witness ==
    /\ Completed
    /\ msg.to # NoAddr
    /\ addressType = "normal"
    /\ GetAddressType(typeSlot[msg.to]) = "contract"
    /\ msg.gasPrice > 0
    /\ balance[Coinbase] = pre.balance[Coinbase] + result.usedGas[1] * msg.gasPrice

\* C27: the role of an address is template when the value stored under the
\* "type" key decodes to the string template, contract when it decodes to
\* contract, and normal for every other value, the empty slot included;
\* classifying changes nothing in the world state, and classifying again with
\* the state unchanged gives the same role.
C27_Decoded ==
    IF typeSlot[msg.to].rest # "" THEN "a longer string"
    ELSE typeSlot[msg.to].first8
C27_ClassifiedByStoredString ==
    msg.to # NoAddr =>
        addressType = CASE C27_Decoded = "template" -> "template"
                        [] C27_Decoded = "contract" -> "contract"
                        [] OTHER -> "normal"

\* C28: the secondary beneficiary credited by the reward split, and the 20
\* coinbase bytes appended to the init code of a template, are the address
\* stored right-aligned in the recipient's 32-byte coinbase slot, that is the
\* bytes 12..31 of the slot value.
C28_RightAlignedCoinbase ==
    /\ primitive.name = "Create" =>
          LET n == Len(GetCode(msg.to)) + Len(msg.data.bytes)
          IN  SubSeq(primitive.input, n + 1, n + 20) =
                  AddressBytes(coinbaseSlot[msg.to].last20)
    /\ (Completed /\ addressType = "contract" /\ msg.gasPrice > 0
          /\ Sender # coinbaseSlot[msg.to].last20) =>
          balance[coinbaseSlot[msg.to].last20] =
              pre.balance[coinbaseSlot[msg.to].last20]
                + (result.usedGas[1] \div 10) * msg.gasPrice

\* The sum of the balances of all accounts.
Total(b) ==
    b["alice"] + b["miner"] + b["contract"] + b["template"] + b["created"]
      + b[Shifted] + b[ZeroAddr]

\* C29: the reward credits the beneficiaries, primary and secondary together,
\* exactly (initial gas - remaining gas) x gas price, for every gas used,
\* divisible by 10 or not; that is what the sender has paid once refundGas has
\* run, so a completed transition leaves the sum of all balances as it was
\* before the transition.
C29_Step ==
    pc = "reward" =>
        Total(balance') - Total(balance) = (initialGas - gas) * msg.gasPrice
C29_FeeConservation ==
    /\ [](pc = "reward" =>
            Total(balance) = Total(pre.balance) - (initialGas - gas) * msg.gasPrice)
    /\ [](Completed =>
            /\ result.usedGas[1] = initialGas - gas
            /\ Total(balance) = Total(pre.balance))
    /\ [][C29_Step]_vars
C29_Witness ==
    /\ Completed
    /\ addressType = "contract"
    /\ msg.gasPrice > 0
    /\ msg.value > 0
    /\ result.usedGas[1] % 10 # 0
    /\ balance[Shifted] = (result.usedGas[1] \div 10) * msg.gasPrice
    /\ Total(balance) = Total(pre.balance)

\* C30: a completed transition returns as gasRequired the gas used before the
\* refund is applied and as gasUsed the gas used after it: gasRequired minus
\* gasUsed is the applied refund, gasRequired >= gasUsed, and
\* gasUsed >= gasRequired - gasRequired / 2.
C30_ResultTuple ==
    Completed =>
        LET required == result.requiredGas[1]
            used == result.usedGas[1]
        IN  /\ required = msg.gas - (gas - appliedRefund)
            /\ used = msg.gas - gas
            /\ required - used = appliedRefund
            /\ required >= used
            /\ used >= required - required \div 2
C30_Witness ==
    /\ Completed
    /\ appliedRefund > 0
    /\ refund > appliedRefund
    /\ result.usedGas[1] = result.requiredGas[1] - result.requiredGas[1] \div 2
    /\ result.requiredGas[1] > result.usedGas[1]

\* C31: a transaction to a template is charged the contract-creation base
\* cost when the upgrade rule is active, and the plain base cost when it is
\* not, for every kind, also SourceCode, Endorse and the kinds that then fail
\* with the invalid-kind error; a transaction to a contract or to a normal
\* recipient is charged the plain base cost. The payload bytes are charged on
\* top.
C31_TemplatePricing ==
    (Purchased /\ pc # "intrinsic" /\ msg.to # NoAddr) =>
        LET payloadCost ==
                Cardinality({i \in DOMAIN msg.data.bytes : msg.data.bytes[i] # 0})
                    * TxDataNonZeroGas
                + Cardinality({i \in DOMAIN msg.data.bytes : msg.data.bytes[i] = 0})
                    * TxDataZeroGas
        IN  /\ addressType = "template" =>
                  intrinsicGas - payloadCost =
                      IF homestead THEN TxGasContractCreation ELSE TxGas
            /\ addressType \in {"contract", "normal"} =>
                  intrinsicGas - payloadCost = TxGas
            /\ (Returned /\ errAt = "dispatch" /\ result.err = ErrInvalidType) =>
                  gas = msg.gas - intrinsicGas
C31_Witness ==
    /\ Returned
    /\ result.err = ErrInvalidType
    /\ addressType = "template"
    /\ txType \in GovernanceKinds
    /\ homestead
    /\ intrinsicGas >= TxGasContractCreation
    /\ gas = msg.gas - intrinsicGas

\* C32: for a contract recipient the reward credits the one-tenth share to
\* the address that the recipient's coinbase slot holds when the reward runs,
\* after the primitive has returned: when the execution has rewritten the
\* slot, the address written receives the share and the address held before
\* receives nothing.
C32_Step ==
    (pc = "reward" /\ addressType = "contract") =>
        LET now == coinbaseSlot[msg.to].first20
            share == ((initialGas - gas) \div 10) * msg.gasPrice
        IN  balance'[now] = balance[now] + share
C32_CoinbaseReadAfterExecution ==
    /\ []((Completed /\ addressType = "contract") =>
            LET now == coinbaseSlot[msg.to].first20
                before == pre.coinbaseSlot[msg.to].first20
                share == (result.usedGas[1] \div 10) * msg.gasPrice
            IN  /\ balance[now] = pre.balance[now] + share
                /\ before # now => balance[before] = pre.balance[before])
    /\ [][C32_Step]_vars
C32_Witness ==
    /\ Completed
    /\ addressType = "contract"
    /\ msg.gasPrice > 0
    /\ coinbaseSlot[msg.to] # pre.coinbaseSlot[msg.to]
    /\ balance[coinbaseSlot[msg.to].first20] > pre.balance[coinbaseSlot[msg.to].first20]
    /\ balance[pre.coinbaseSlot[msg.to].first20] = pre.balance[pre.coinbaseSlot[msg.to].first20]

(***************************************************************************)
(* The sealer.                                                             *)
(***************************************************************************)
\* The threads of round r that found a nonce, and those whose block Seal received.
Finders(r) == {id \in Ids : mine[r][id] \in {"found", "delivered", "discarded"}}
Delivered(r) == {id \in Ids : mine[r][id] = "delivered"}
Started(r) == {id \in Ids : mine[r][id] # "none"}

\* C33: Seal returns only after every search thread it started has
\* terminated: once the stop case or the found case is taken the abort
\* channel is closed before Seal waits, no thread of any round is running when
\* Seal has returned, and a Seal that returns on stop returns a nil block and
\* a nil error.
C33_ReturnsAfterThreads ==
    /\ sealPc = "returned" => \A r \in Rounds, id \in Ids : ~Running(mine[r][id])
    /\ (sealPc \in {"wait", "returned"} /\ taken \in {"stop", "found"}) => abort[round]
    /\ (sealPc = "returned" /\ taken = "stop") => sealed = NoSeal

C33_Witness ==
    /\ sealPc = "returned"
    /\ taken = "stop"
    /\ \E id \in Ids : mine[round][id] = "aborted"
    /\ \E id \in Ids : mine[round][id] = "discarded"

\* C34 as stated: when several threads of the round have found a nonce and
\* Seal has returned, exactly one block was received and it is the one
\* returned.
C34_ExactlyOneReceived ==
    (sealPc = "returned" /\ round > 0 /\ Cardinality(Finders(round)) >= 2)
        => /\ Cardinality(Delivered(round)) = 1
           /\ \E id \in Delivered(round) : sealed.block = SealedBy(round, id)

\* A thread that found a nonce is never left without a partner: Seal is
\* receiving, or has closed abort, or is on its way to either.
C34_NotStuck ==
    \A r \in Rounds, id \in Ids :
        mine[r][id] = "found" =>
            \/ abort[r]
            \/ round = r /\ sealPc \in {"spawn", "select", "abort"}

\* C34: the hand-off delivers at most one block and is deadlock-free: over
\* all rounds at most one block is received; it is received in the found
\* case and it is the block returned; when the found case is taken exactly
\* one thread delivered, when the stop or update case is taken none did,
\* however many found a nonce; when Seal has returned every other finder has
\* discarded its nonce on abort; and no thread waits forever with the nonce
\* it found: from some point on every finder has delivered or discarded.
C34_HandOff ==
    /\ [](/\ \A r \in Rounds : Cardinality(Delivered(r)) <=
                                  (IF r = round /\ taken = "found" THEN 1 ELSE 0)
          /\ taken = "found" =>
                \E id \in Delivered(round) : sealed = [block |-> SealedBy(round, id),
                                                       err |-> NoErr]
          /\ (round > 0 /\ taken # "found") => sealed.block = NoBlock
          /\ sealPc = "returned" =>
                \A r \in Rounds : \A id \in Finders(r) \ Delivered(r) :
                    mine[r][id] = "discarded"
          /\ C34_NotStuck)
    /\ <>[](\A r \in Rounds, id \in Ids : mine[r][id] # "found")

C34_Witness ==
    /\ sealPc = "returned"
    /\ taken = "found"
    /\ Cardinality(Finders(round)) >= 2
    /\ \E id \in Ids : mine[round][id] = "discarded"

\* Threads of two rounds never run at the same time.
C35_OneRoundAtATime ==
    \A r1 \in Rounds, r2 \in Rounds :
        (r1 # r2) => ~(/\ \E id \in Ids : Running(mine[r1][id])
                       /\ \E id \in Ids : Running(mine[r2][id]))

\* The restart follows the abort and the end of every thread of the round.
C35_RestartAfterAbort ==
    /\ sealPc = "restart" => (abort[round] /\ \A id \in Ids : ~Running(mine[round][id]))
    /\ \A r \in Rounds : r < round =>
          (abort[r] /\ \A id \in Ids : ~Running(mine[r][id]))

\* With a negative thread count the running invocation started no thread.
C35_NegativeStartsNone ==
    (round > 0 /\ threads < 0 /\ taken # "update") => Started(round) = {}

\* C35 as stated: rounds do not overlap, and outside the fake mode a Seal
\* configured with a negative thread count starts no thread and returns only
\* through the stop case.
C35_NegativeReturnsOnStop ==
    /\ C35_OneRoundAtATime
    /\ C35_RestartAfterAbort
    /\ C35_NegativeStartsNone
    /\ (sealPc = "returned" /\ ~fakeMode /\ threads < 0) => taken = "stop"

\* C35: on update the threads of the round are aborted and have terminated
\* before Seal calls itself, so rounds never overlap; with a negative thread
\* count no thread is started, and outside the fake mode Seal then returns
\* through the stop case, possibly after updates, or returns the error of the
\* random source at once when the first call cannot draw its seed.
C35_RestartAfterTermination ==
    /\ C35_OneRoundAtATime
    /\ C35_RestartAfterAbort
    /\ C35_NegativeStartsNone
    /\ (sealPc = "returned" /\ ~fakeMode /\ threads < 0) =>
          \/ taken = "stop"
          \/ /\ sealed = [block |-> NoBlock, err |-> ErrSeed]
             /\ round = 0
             /\ \A r \in Rounds : Started(r) = {}

C35_Witness ==
    /\ round = 2
    /\ threads < 0
    /\ sealPc = "returned"
    /\ taken = "stop"
    /\ \E id \in Ids : mine[1][id] = "discarded"

(***************************************************************************)
(* The service.                                                            *)
(***************************************************************************)
\* No call of SetCoinbase is under way and one at least has returned.
SetCoinbaseCompleted ==
    /\ \A k \in Callers : setPc[k] \in {"idle", "done"}
    /\ \E k \in Callers : setPc[k] = "done"

\* C36: after the calls of SetCoinbase have completed, the coinbase stored in
\* the service and the coinbase last given to the miner are the same address.
C36_ServiceAndMinerAgree ==
    SetCoinbaseCompleted => coinbaseField = minerCoinbase

\* What StartMining does when it leaves a statement.
C37_Step ==
    /\ (startPc = "idle" /\ startPc' # "idle"
            /\ validatorField = ZeroAddr /\ accounts = << >>)
          => /\ startPc' = "returned"
             /\ started' = [NotStarted EXCEPT !.err = ErrValidatorMissing]
    /\ (startPc = "coinbase" /\ startPc' # "coinbase"
            /\ coinbaseField = ZeroAddr /\ accounts = << >>)
          => /\ startPc' = "returned"
             /\ started' = [NotStarted EXCEPT !.err = ErrCoinbaseMissing]

\* C37: Validator() and Coinbase() return the field when it is not the zero
\* address; otherwise the first account of the first wallet, and an error
\* when there is none; StartMining returns an error and leaves the miner
\* stopped when the validator or the coinbase cannot be resolved, and starts
\* the miner only without an error.
C37_Resolution ==
    /\ [](/\ validatorField # ZeroAddr =>
                kokereumValidator(validatorField, accounts)
                    = [addr |-> validatorField, err |-> NoErr]
          /\ (validatorField = ZeroAddr /\ Len(accounts) > 0) =>
                kokereumValidator(validatorField, accounts)
                    = [addr |-> accounts[1], err |-> NoErr]
          /\ (validatorField = ZeroAddr /\ Len(accounts) = 0) =>
                kokereumValidator(validatorField, accounts).err = ErrValidator
          /\ coinbaseField # ZeroAddr =>
                kokereumCoinbase(coinbaseField, accounts)
                    = [addr |-> coinbaseField, err |-> NoErr]
          /\ (coinbaseField = ZeroAddr /\ Len(accounts) > 0) =>
                kokereumCoinbase(coinbaseField, accounts)
                    = [addr |-> accounts[1], err |-> NoErr]
          /\ (coinbaseField = ZeroAddr /\ Len(accounts) = 0) =>
                kokereumCoinbase(coinbaseField, accounts).err = ErrCoinbase
          /\ started.miner => (started.err = NoErr /\ started.coinbase # ZeroAddr)
          /\ startPc = "coinbase" => startValidator # ZeroAddr)
    /\ [][C37_Step]_vars

C37_Witness ==
    /\ startPc = "returned"
    /\ started.err = ErrCoinbaseMissing
    /\ validatorField # ZeroAddr
    /\ accounts = << >>

(***************************************************************************)
(* The classifier and the storage keys.                                    *)
(***************************************************************************)
\* C38: GetAddressType looks only at the first 8 bytes of the type slot: two
\* slots with the same first 8 bytes classify to the same role whatever the
\* bytes after them, and the role read by the transition is that of the first
\* 8 bytes alone; HashTypeString puts the bytes of the string at the start of
\* the 32-byte word and zero bytes after them, so a slot that holds
\* HashTypeString of a tag classifies as that tag.
C38_FirstEightBytes ==
    /\ \A a \in Classified, b \in Classified :
          typeSlot[a].first8 = typeSlot[b].first8 =>
              GetAddressType(typeSlot[a]) = GetAddressType(typeSlot[b])
    /\ (msg.to \in Classified /\ addressType # "") =>
          addressType = GetAddressType(TypeWord(typeSlot[msg.to].first8))
    /\ \A s \in {"type", "coinbase", "template", "contract"} :
          LET hash == HashTypeString(Ascii(s))
          IN  /\ Len(hash) = HashLength
              /\ \A i \in 1..HashLength :
                    hash[i] = IF i <= Len(Ascii(s)) THEN Ascii(s)[i] ELSE 0
    /\ \A s \in {"template", "contract"} :
          (msg.to \in Classified /\ addressType # ""
                /\ WordBytes(typeSlot[msg.to]) = HashTypeString(Ascii(s)))
              => addressType = s

C38_Witness ==
    /\ \E a \in Classified, b \in Classified :
          /\ typeSlot[a].first8 = "contract"
          /\ typeSlot[b].first8 = "contract"
          /\ typeSlot[a].rest # typeSlot[b].rest
    /\ msg.to \in Classified
    /\ typeSlot[msg.to].rest # ""
    /\ addressType = "contract"

====
